---------------------------- MODULE Spec2Model ----------------------------
(***************************************************************************)
(* The AVR disassembler core of src/src/disasm.c: the opcode registry      *)
(* (Register_Opcode, Supersede_Opcode, qsort with Comparison), the bit     *)
(* matcher (Match_Opcode), the resolver (Get_Next_Opcode) and the two-pass *)
(* driver (Disassemble) called from disasm.                                *)
(*                                                                         *)
(* A C string is a tuple of one-character strings; a byte is 0..255; the   *)
(* pointer Bitstream + Pos is the pair of the memory and the offset Pos.   *)
(***************************************************************************)
EXTENDS Integers, Sequences, FiniteSets, TLC

(***************************************************************************)
(* The Register_Opcode calls of disasm, in source order (lines 393-527),   *)
(* and its Supersede_Opcode calls (lines 530-593).                         *)
(***************************************************************************)
OpcodeTable ==
  << [Callback |-> "adc_Callback", Opcode_String |-> <<"0","0","0","1"," ","1","1","r","d"," "," ","d","d","d","d"," ","r","r","r","r">>, mnemo |-> "OPCODE_adc"],
     [Callback |-> "add_Callback", Opcode_String |-> <<"0","0","0","0"," ","1","1","r","d"," "," ","d","d","d","d"," ","r","r","r","r">>, mnemo |-> "OPCODE_add"],
     [Callback |-> "adiw_Callback", Opcode_String |-> <<"1","0","0","1"," ","0","1","1","0"," "," ","K","K","d","d"," ","K","K","K","K">>, mnemo |-> "OPCODE_adiw"],
     [Callback |-> "and_Callback", Opcode_String |-> <<"0","0","1","0"," ","0","0","r","d"," "," ","d","d","d","d"," ","r","r","r","r">>, mnemo |-> "OPCODE_and"],
     [Callback |-> "andi_Callback", Opcode_String |-> <<"0","1","1","1"," ","K","K","K","K"," "," ","d","d","d","d"," ","K","K","K","K">>, mnemo |-> "OPCODE_andi"],
     [Callback |-> "asr_Callback", Opcode_String |-> <<"1","0","0","1"," ","0","1","0","d"," "," ","d","d","d","d"," ","0","1","0","1">>, mnemo |-> "OPCODE_asr"],
     [Callback |-> "bclr_Callback", Opcode_String |-> <<"1","0","0","1"," ","0","1","0","0"," "," ","1","s","s","s"," ","1","0","0","0">>, mnemo |-> "OPCODE_bclr"],
     [Callback |-> "bld_Callback", Opcode_String |-> <<"1","1","1","1"," ","1","0","0","d"," "," ","d","d","d","d"," ","0","b","b","b">>, mnemo |-> "OPCODE_bld"],
     [Callback |-> "brbc_Callback", Opcode_String |-> <<"1","1","1","1"," ","0","1","k","k"," "," ","k","k","k","k"," ","k","s","s","s">>, mnemo |-> "OPCODE_brbc"],
     [Callback |-> "brbs_Callback", Opcode_String |-> <<"1","1","1","1"," ","0","0","k","k"," "," ","k","k","k","k"," ","k","s","s","s">>, mnemo |-> "OPCODE_brbs"],
     [Callback |-> "brcc_Callback", Opcode_String |-> <<"1","1","1","1"," ","0","1","k","k"," "," ","k","k","k","k"," ","k","0","0","0">>, mnemo |-> "OPCODE_brcc"],
     [Callback |-> "brcs_Callback", Opcode_String |-> <<"1","1","1","1"," ","0","0","k","k"," "," ","k","k","k","k"," ","k","0","0","0">>, mnemo |-> "OPCODE_brcs"],
     [Callback |-> "break_Callback", Opcode_String |-> <<"1","0","0","1"," ","0","1","0","1"," "," ","1","0","0","1"," ","1","0","0","0">>, mnemo |-> "OPCODE_break"],
     [Callback |-> "breq_Callback", Opcode_String |-> <<"1","1","1","1"," ","0","0","k","k"," "," ","k","k","k","k"," ","k","0","0","1">>, mnemo |-> "OPCODE_breq"],
     [Callback |-> "brge_Callback", Opcode_String |-> <<"1","1","1","1"," ","0","1","k","k"," "," ","k","k","k","k"," ","k","1","0","0">>, mnemo |-> "OPCODE_brge"],
     [Callback |-> "brhc_Callback", Opcode_String |-> <<"1","1","1","1"," ","0","1","k","k"," "," ","k","k","k","k"," ","k","1","0","1">>, mnemo |-> "OPCODE_brhc"],
     [Callback |-> "brhs_Callback", Opcode_String |-> <<"1","1","1","1"," ","0","0","k","k"," "," ","k","k","k","k"," ","k","1","0","1">>, mnemo |-> "OPCODE_brhs"],
     [Callback |-> "brid_Callback", Opcode_String |-> <<"1","1","1","1"," ","0","1","k","k"," "," ","k","k","k","k"," ","k","1","1","1">>, mnemo |-> "OPCODE_brid"],
     [Callback |-> "brie_Callback", Opcode_String |-> <<"1","1","1","1"," ","0","0","k","k"," "," ","k","k","k","k"," ","k","1","1","1">>, mnemo |-> "OPCODE_brie"],
     [Callback |-> "brlo_Callback", Opcode_String |-> <<"1","1","1","1"," ","0","0","k","k"," "," ","k","k","k","k"," ","k","0","0","0">>, mnemo |-> "OPCODE_brlo"],
     [Callback |-> "brlt_Callback", Opcode_String |-> <<"1","1","1","1"," ","0","0","k","k"," "," ","k","k","k","k"," ","k","1","0","0">>, mnemo |-> "OPCODE_brlt"],
     [Callback |-> "brmi_Callback", Opcode_String |-> <<"1","1","1","1"," ","0","0","k","k"," "," ","k","k","k","k"," ","k","0","1","0">>, mnemo |-> "OPCODE_brmi"],
     [Callback |-> "brne_Callback", Opcode_String |-> <<"1","1","1","1"," ","0","1","k","k"," "," ","k","k","k","k"," ","k","0","0","1">>, mnemo |-> "OPCODE_brne"],
     [Callback |-> "brpl_Callback", Opcode_String |-> <<"1","1","1","1"," ","0","1","k","k"," "," ","k","k","k","k"," ","k","0","1","0">>, mnemo |-> "OPCODE_brpl"],
     [Callback |-> "brsh_Callback", Opcode_String |-> <<"1","1","1","1"," ","0","1","k","k"," "," ","k","k","k","k"," ","k","0","0","0">>, mnemo |-> "OPCODE_brsh"],
     [Callback |-> "brtc_Callback", Opcode_String |-> <<"1","1","1","1"," ","0","1","k","k"," "," ","k","k","k","k"," ","k","1","1","0">>, mnemo |-> "OPCODE_brtc"],
     [Callback |-> "brts_Callback", Opcode_String |-> <<"1","1","1","1"," ","0","0","k","k"," "," ","k","k","k","k"," ","k","1","1","0">>, mnemo |-> "OPCODE_brts"],
     [Callback |-> "brvc_Callback", Opcode_String |-> <<"1","1","1","1"," ","0","1","k","k"," "," ","k","k","k","k"," ","k","0","1","1">>, mnemo |-> "OPCODE_brvc"],
     [Callback |-> "brvs_Callback", Opcode_String |-> <<"1","1","1","1"," ","0","0","k","k"," "," ","k","k","k","k"," ","k","0","1","1">>, mnemo |-> "OPCODE_brvs"],
     [Callback |-> "bset_Callback", Opcode_String |-> <<"1","0","0","1"," ","0","1","0","0"," "," ","0","s","s","s"," ","1","0","0","0">>, mnemo |-> "OPCODE_bset"],
     [Callback |-> "bst_Callback", Opcode_String |-> <<"1","1","1","1"," ","1","0","1","d"," "," ","d","d","d","d"," ","0","b","b","b">>, mnemo |-> "OPCODE_bst"],
     [Callback |-> "call_Callback", Opcode_String |-> <<"1","0","0","1"," ","0","1","0","k"," "," ","k","k","k","k"," ","1","1","1","k"," "," "," "," ","k","k","k","k"," ","k","k","k","k"," "," ","k","k","k","k"," ","k","k","k","k">>, mnemo |-> "OPCODE_call"],
     [Callback |-> "cbi_Callback", Opcode_String |-> <<"1","0","0","1"," ","1","0","0","0"," "," ","A","A","A","A"," ","A","b","b","b">>, mnemo |-> "OPCODE_cbi"],
     [Callback |-> "clc_Callback", Opcode_String |-> <<"1","0","0","1"," ","0","1","0","0"," "," ","1","0","0","0"," ","1","0","0","0">>, mnemo |-> "OPCODE_clc"],
     [Callback |-> "clh_Callback", Opcode_String |-> <<"1","0","0","1"," ","0","1","0","0"," "," ","1","1","0","1"," ","1","0","0","0">>, mnemo |-> "OPCODE_clh"],
     [Callback |-> "cli_Callback", Opcode_String |-> <<"1","0","0","1"," ","0","1","0","0"," "," ","1","1","1","1"," ","1","0","0","0">>, mnemo |-> "OPCODE_cli"],
     [Callback |-> "cln_Callback", Opcode_String |-> <<"1","0","0","1"," ","0","1","0","0"," "," ","1","0","1","0"," ","1","0","0","0">>, mnemo |-> "OPCODE_cln"],
     [Callback |-> "cls_Callback", Opcode_String |-> <<"1","0","0","1"," ","0","1","0","0"," "," ","1","1","0","0"," ","1","0","0","0">>, mnemo |-> "OPCODE_cls"],
     [Callback |-> "clt_Callback", Opcode_String |-> <<"1","0","0","1"," ","0","1","0","0"," "," ","1","1","1","0"," ","1","0","0","0">>, mnemo |-> "OPCODE_clt"],
     [Callback |-> "clv_Callback", Opcode_String |-> <<"1","0","0","1"," ","0","1","0","0"," "," ","1","0","1","1"," ","1","0","0","0">>, mnemo |-> "OPCODE_clv"],
     [Callback |-> "clz_Callback", Opcode_String |-> <<"1","0","0","1"," ","0","1","0","0"," "," ","1","0","0","1"," ","1","0","0","0">>, mnemo |-> "OPCODE_clz"],
     [Callback |-> "com_Callback", Opcode_String |-> <<"1","0","0","1"," ","0","1","0","d"," "," ","d","d","d","d"," ","0","0","0","0">>, mnemo |-> "OPCODE_com"],
     [Callback |-> "cp_Callback", Opcode_String |-> <<"0","0","0","1"," ","0","1","r","d"," "," ","d","d","d","d"," ","r","r","r","r">>, mnemo |-> "OPCODE_cp"],
     [Callback |-> "cpc_Callback", Opcode_String |-> <<"0","0","0","0"," ","0","1","r","d"," "," ","d","d","d","d"," ","r","r","r","r">>, mnemo |-> "OPCODE_cpc"],
     [Callback |-> "cpi_Callback", Opcode_String |-> <<"0","0","1","1"," ","K","K","K","K"," "," ","d","d","d","d"," ","K","K","K","K">>, mnemo |-> "OPCODE_cpi"],
     [Callback |-> "cpse_Callback", Opcode_String |-> <<"0","0","0","1"," ","0","0","r","d"," "," ","d","d","d","d"," ","r","r","r","r">>, mnemo |-> "OPCODE_cpse"],
     [Callback |-> "dec_Callback", Opcode_String |-> <<"1","0","0","1"," ","0","1","0","d"," "," ","d","d","d","d"," ","1","0","1","0">>, mnemo |-> "OPCODE_dec"],
     [Callback |-> "eicall_Callback", Opcode_String |-> <<"1","0","0","1"," ","0","1","0","1"," "," ","0","0","0","1"," ","1","0","0","1">>, mnemo |-> "OPCODE_eicall"],
     [Callback |-> "eijmp_Callback", Opcode_String |-> <<"1","0","0","1"," ","0","1","0","0"," "," ","0","0","0","1"," ","1","0","0","1">>, mnemo |-> "OPCODE_eijmp"],
     [Callback |-> "elpm1_Callback", Opcode_String |-> <<"1","0","0","1"," ","0","1","0","1"," "," ","1","1","0","1"," ","1","0","0","0">>, mnemo |-> "OPCODE_elpm_1"],
     [Callback |-> "elpm2_Callback", Opcode_String |-> <<"1","0","0","1"," ","0","0","0","d"," "," ","d","d","d","d"," ","0","1","1","0">>, mnemo |-> "OPCODE_elpm_2"],
     [Callback |-> "elpm3_Callback", Opcode_String |-> <<"1","0","0","1"," ","0","0","0","d"," "," ","d","d","d","d"," ","0","1","1","1">>, mnemo |-> "OPCODE_elpm_3"],
     [Callback |-> "eor_Callback", Opcode_String |-> <<"0","0","1","0"," ","0","1","r","d"," "," ","d","d","d","d"," ","r","r","r","r">>, mnemo |-> "OPCODE_eor"],
     [Callback |-> "fmul_Callback", Opcode_String |-> <<"0","0","0","0"," ","0","0","1","1"," "," ","0","d","d","d"," ","1","r","r","r">>, mnemo |-> "OPCODE_fmul"],
     [Callback |-> "fmuls_Callback", Opcode_String |-> <<"0","0","0","0"," ","0","0","1","1"," "," ","1","d","d","d"," ","0","r","r","r">>, mnemo |-> "OPCODE_fmuls"],
     [Callback |-> "fmulsu_Callback", Opcode_String |-> <<"0","0","0","0"," ","0","0","1","1"," "," ","1","d","d","d"," ","1","r","r","r">>, mnemo |-> "OPCODE_fmulsu"],
     [Callback |-> "icall_Callback", Opcode_String |-> <<"1","0","0","1"," ","0","1","0","1"," "," ","0","0","0","0"," ","1","0","0","1">>, mnemo |-> "OPCODE_icall"],
     [Callback |-> "ijmp_Callback", Opcode_String |-> <<"1","0","0","1"," ","0","1","0","0"," "," ","0","0","0","0"," ","1","0","0","1">>, mnemo |-> "OPCODE_ijmp"],
     [Callback |-> "in_Callback", Opcode_String |-> <<"1","0","1","1"," ","0","A","A","d"," "," ","d","d","d","d"," ","A","A","A","A">>, mnemo |-> "OPCODE_in"],
     [Callback |-> "inc_Callback", Opcode_String |-> <<"1","0","0","1"," ","0","1","0","d"," "," ","d","d","d","d"," ","0","0","1","1">>, mnemo |-> "OPCODE_inc"],
     [Callback |-> "jmp_Callback", Opcode_String |-> <<"1","0","0","1"," ","0","1","0","k"," "," ","k","k","k","k"," ","1","1","0","k"," "," "," "," ","k","k","k","k"," ","k","k","k","k"," "," ","k","k","k","k"," ","k","k","k","k">>, mnemo |-> "OPCODE_jmp"],
     [Callback |-> "ldx1_Callback", Opcode_String |-> <<"1","0","0","1"," ","0","0","0","d"," "," ","d","d","d","d"," ","1","1","0","0">>, mnemo |-> "OPCODE_ld_1"],
     [Callback |-> "ldx2_Callback", Opcode_String |-> <<"1","0","0","1"," ","0","0","0","d"," "," ","d","d","d","d"," ","1","1","0","1">>, mnemo |-> "OPCODE_ld_2"],
     [Callback |-> "ldx3_Callback", Opcode_String |-> <<"1","0","0","1"," ","0","0","0","d"," "," ","d","d","d","d"," ","1","1","1","0">>, mnemo |-> "OPCODE_ld_3"],
     [Callback |-> "ldy1_Callback", Opcode_String |-> <<"1","0","0","0"," ","0","0","0","d"," "," ","d","d","d","d"," ","1","0","0","0">>, mnemo |-> "OPCODE_ld_4"],
     [Callback |-> "ldy2_Callback", Opcode_String |-> <<"1","0","0","1"," ","0","0","0","d"," "," ","d","d","d","d"," ","1","0","0","1">>, mnemo |-> "OPCODE_ld_5"],
     [Callback |-> "ldy3_Callback", Opcode_String |-> <<"1","0","0","1"," ","0","0","0","d"," "," ","d","d","d","d"," ","1","0","1","0">>, mnemo |-> "OPCODE_ld_6"],
     [Callback |-> "ldy4_Callback", Opcode_String |-> <<"1","0","q","0"," ","q","q","0","d"," "," ","d","d","d","d"," ","1","q","q","q">>, mnemo |-> "OPCODE_ldd_1"],
     [Callback |-> "ldz1_Callback", Opcode_String |-> <<"1","0","0","0"," ","0","0","0","d"," "," ","d","d","d","d"," ","0","0","0","0">>, mnemo |-> "OPCODE_ld_7"],
     [Callback |-> "ldz2_Callback", Opcode_String |-> <<"1","0","0","1"," ","0","0","0","d"," "," ","d","d","d","d"," ","0","0","0","1">>, mnemo |-> "OPCODE_ld_8"],
     [Callback |-> "ldz3_Callback", Opcode_String |-> <<"1","0","0","1"," ","0","0","0","d"," "," ","d","d","d","d"," ","0","0","1","0">>, mnemo |-> "OPCODE_ld_9"],
     [Callback |-> "ldz4_Callback", Opcode_String |-> <<"1","0","q","0"," ","q","q","0","d"," "," ","d","d","d","d"," ","0","q","q","q">>, mnemo |-> "OPCODE_ldd_2"],
     [Callback |-> "ldi_Callback", Opcode_String |-> <<"1","1","1","0"," ","K","K","K","K"," "," ","d","d","d","d"," ","K","K","K","K">>, mnemo |-> "OPCODE_ldi"],
     [Callback |-> "lds_Callback", Opcode_String |-> <<"1","0","0","1"," ","0","0","0","d"," "," ","d","d","d","d"," ","0","0","0","0"," "," "," "," ","k","k","k","k"," ","k","k","k","k"," "," ","k","k","k","k"," ","k","k","k","k">>, mnemo |-> "OPCODE_lds"],
     [Callback |-> "lpm1_Callback", Opcode_String |-> <<"1","0","0","1"," ","0","1","0","1"," "," ","1","1","0","0"," ","1","0","0","0">>, mnemo |-> "OPCODE_lpm_1"],
     [Callback |-> "lpm2_Callback", Opcode_String |-> <<"1","0","0","1"," ","0","0","0","d"," "," ","d","d","d","d"," ","0","1","0","0">>, mnemo |-> "OPCODE_lpm_2"],
     [Callback |-> "lpm3_Callback", Opcode_String |-> <<"1","0","0","1"," ","0","0","0","d"," "," ","d","d","d","d"," ","0","1","0","1">>, mnemo |-> "OPCODE_lpm_3"],
     [Callback |-> "lsr_Callback", Opcode_String |-> <<"1","0","0","1"," ","0","1","0","d"," "," ","d","d","d","d"," ","0","1","1","0">>, mnemo |-> "OPCODE_lsr"],
     [Callback |-> "mov_Callback", Opcode_String |-> <<"0","0","1","0"," ","1","1","r","d"," "," ","d","d","d","d"," ","r","r","r","r">>, mnemo |-> "OPCODE_mov"],
     [Callback |-> "movw_Callback", Opcode_String |-> <<"0","0","0","0"," ","0","0","0","1"," "," ","d","d","d","d"," ","r","r","r","r">>, mnemo |-> "OPCODE_movw"],
     [Callback |-> "mul_Callback", Opcode_String |-> <<"1","0","0","1"," ","1","1","r","d"," "," ","d","d","d","d"," ","r","r","r","r">>, mnemo |-> "OPCODE_mul"],
     [Callback |-> "muls_Callback", Opcode_String |-> <<"0","0","0","0"," ","0","0","1","0"," "," ","d","d","d","d"," ","r","r","r","r">>, mnemo |-> "OPCODE_muls"],
     [Callback |-> "mulsu_Callback", Opcode_String |-> <<"0","0","0","0"," ","0","0","1","1"," "," ","0","d","d","d"," ","0","r","r","r">>, mnemo |-> "OPCODE_mulsu"],
     [Callback |-> "neg_Callback", Opcode_String |-> <<"1","0","0","1"," ","0","1","0","d"," "," ","d","d","d","d"," ","0","0","0","1">>, mnemo |-> "OPCODE_neg"],
     [Callback |-> "nop_Callback", Opcode_String |-> <<"0","0","0","0"," ","0","0","0","0"," "," ","0","0","0","0"," ","0","0","0","0">>, mnemo |-> "OPCODE_nop"],
     [Callback |-> "or_Callback", Opcode_String |-> <<"0","0","1","0"," ","1","0","r","d"," "," ","d","d","d","d"," ","r","r","r","r">>, mnemo |-> "OPCODE_or"],
     [Callback |-> "ori_Callback", Opcode_String |-> <<"0","1","1","0"," ","K","K","K","K"," "," ","d","d","d","d"," ","K","K","K","K">>, mnemo |-> "OPCODE_ori"],
     [Callback |-> "out_Callback", Opcode_String |-> <<"1","0","1","1"," ","1","A","A","r"," "," ","r","r","r","r"," ","A","A","A","A">>, mnemo |-> "OPCODE_out"],
     [Callback |-> "pop_Callback", Opcode_String |-> <<"1","0","0","1"," ","0","0","0","d"," "," ","d","d","d","d"," ","1","1","1","1">>, mnemo |-> "OPCODE_pop"],
     [Callback |-> "push_Callback", Opcode_String |-> <<"1","0","0","1"," ","0","0","1","d"," "," ","d","d","d","d"," ","1","1","1","1">>, mnemo |-> "OPCODE_push"],
     [Callback |-> "rcall_Callback", Opcode_String |-> <<"1","1","0","1"," ","k","k","k","k"," "," ","k","k","k","k"," ","k","k","k","k">>, mnemo |-> "OPCODE_rcall"],
     [Callback |-> "ret_Callback", Opcode_String |-> <<"1","0","0","1"," ","0","1","0","1"," "," ","0","0","0","0"," ","1","0","0","0">>, mnemo |-> "OPCODE_ret"],
     [Callback |-> "reti_Callback", Opcode_String |-> <<"1","0","0","1"," ","0","1","0","1"," "," ","0","0","0","1"," ","1","0","0","0">>, mnemo |-> "OPCODE_reti"],
     [Callback |-> "rjmp_Callback", Opcode_String |-> <<"1","1","0","0"," ","k","k","k","k"," "," ","k","k","k","k"," ","k","k","k","k">>, mnemo |-> "OPCODE_rjmp"],
     [Callback |-> "ror_Callback", Opcode_String |-> <<"1","0","0","1"," ","0","1","0","d"," "," ","d","d","d","d"," ","0","1","1","1">>, mnemo |-> "OPCODE_ror"],
     [Callback |-> "sbc_Callback", Opcode_String |-> <<"0","0","0","0"," ","1","0","r","d"," "," ","d","d","d","d"," ","r","r","r","r">>, mnemo |-> "OPCODE_sbc"],
     [Callback |-> "sbci_Callback", Opcode_String |-> <<"0","1","0","0"," ","K","K","K","K"," "," ","d","d","d","d"," ","K","K","K","K">>, mnemo |-> "OPCODE_sbci"],
     [Callback |-> "sbi_Callback", Opcode_String |-> <<"1","0","0","1"," ","1","0","1","0"," "," ","A","A","A","A"," ","A","b","b","b">>, mnemo |-> "OPCODE_sbi"],
     [Callback |-> "sbic_Callback", Opcode_String |-> <<"1","0","0","1"," ","1","0","0","1"," "," ","A","A","A","A"," ","A","b","b","b">>, mnemo |-> "OPCODE_sbic"],
     [Callback |-> "sbis_Callback", Opcode_String |-> <<"1","0","0","1"," ","1","0","1","1"," "," ","A","A","A","A"," ","A","b","b","b">>, mnemo |-> "OPCODE_sbis"],
     [Callback |-> "sbiw_Callback", Opcode_String |-> <<"1","0","0","1"," ","0","1","1","1"," "," ","K","K","d","d"," ","K","K","K","K">>, mnemo |-> "OPCODE_sbiw"],
     [Callback |-> "sbr_Callback", Opcode_String |-> <<"0","1","1","0"," ","K","K","K","K"," "," ","d","d","d","d"," ","K","K","K","K">>, mnemo |-> "OPCODE_sbr"],
     [Callback |-> "sbrc_Callback", Opcode_String |-> <<"1","1","1","1"," ","1","1","0","r"," "," ","r","r","r","r"," ","0","b","b","b">>, mnemo |-> "OPCODE_sbrc"],
     [Callback |-> "sbrs_Callback", Opcode_String |-> <<"1","1","1","1"," ","1","1","1","r"," "," ","r","r","r","r"," ","0","b","b","b">>, mnemo |-> "OPCODE_sbrs"],
     [Callback |-> "sec_Callback", Opcode_String |-> <<"1","0","0","1"," ","0","1","0","0"," "," ","0","0","0","0"," ","1","0","0","0">>, mnemo |-> "OPCODE_sec"],
     [Callback |-> "seh_Callback", Opcode_String |-> <<"1","0","0","1"," ","0","1","0","0"," "," ","0","1","0","1"," ","1","0","0","0">>, mnemo |-> "OPCODE_seh"],
     [Callback |-> "sei_Callback", Opcode_String |-> <<"1","0","0","1"," ","0","1","0","0"," "," ","0","1","1","1"," ","1","0","0","0">>, mnemo |-> "OPCODE_sei"],
     [Callback |-> "sen_Callback", Opcode_String |-> <<"1","0","0","1"," ","0","1","0","0"," "," ","0","0","1","0"," ","1","0","0","0">>, mnemo |-> "OPCODE_sen"],
     [Callback |-> "ser_Callback", Opcode_String |-> <<"1","1","1","0"," ","1","1","1","1"," "," ","d","d","d","d"," ","1","1","1","1">>, mnemo |-> "OPCODE_ser"],
     [Callback |-> "ses_Callback", Opcode_String |-> <<"1","0","0","1"," ","0","1","0","0"," "," ","0","1","0","0"," ","1","0","0","0">>, mnemo |-> "OPCODE_ses"],
     [Callback |-> "set_Callback", Opcode_String |-> <<"1","0","0","1"," ","0","1","0","0"," "," ","0","1","1","0"," ","1","0","0","0">>, mnemo |-> "OPCODE_set"],
     [Callback |-> "sev_Callback", Opcode_String |-> <<"1","0","0","1"," ","0","1","0","0"," "," ","0","0","1","1"," ","1","0","0","0">>, mnemo |-> "OPCODE_sev"],
     [Callback |-> "sez_Callback", Opcode_String |-> <<"1","0","0","1"," ","0","1","0","0"," "," ","0","0","0","1"," ","1","0","0","0">>, mnemo |-> "OPCODE_sez"],
     [Callback |-> "sleep_Callback", Opcode_String |-> <<"1","0","0","1"," ","0","1","0","1"," "," ","1","0","0","0"," ","1","0","0","0">>, mnemo |-> "OPCODE_sleep"],
     [Callback |-> "spm_Callback", Opcode_String |-> <<"1","0","0","1"," ","0","1","0","1"," "," ","1","1","1","0"," ","1","0","0","0">>, mnemo |-> "OPCODE_spm"],
     [Callback |-> "stx1_Callback", Opcode_String |-> <<"1","0","0","1"," ","0","0","1","r"," "," ","r","r","r","r"," ","1","1","0","0">>, mnemo |-> "OPCODE_st_1"],
     [Callback |-> "stx2_Callback", Opcode_String |-> <<"1","0","0","1"," ","0","0","1","r"," "," ","r","r","r","r"," ","1","1","0","1">>, mnemo |-> "OPCODE_st_2"],
     [Callback |-> "stx3_Callback", Opcode_String |-> <<"1","0","0","1"," ","0","0","1","r"," "," ","r","r","r","r"," ","1","1","1","0">>, mnemo |-> "OPCODE_st_3"],
     [Callback |-> "sty1_Callback", Opcode_String |-> <<"1","0","0","0"," ","0","0","1","r"," "," ","r","r","r","r"," ","1","0","0","0">>, mnemo |-> "OPCODE_st_4"],
     [Callback |-> "sty2_Callback", Opcode_String |-> <<"1","0","0","1"," ","0","0","1","r"," "," ","r","r","r","r"," ","1","0","0","1">>, mnemo |-> "OPCODE_st_5"],
     [Callback |-> "sty3_Callback", Opcode_String |-> <<"1","0","0","1"," ","0","0","1","r"," "," ","r","r","r","r"," ","1","0","1","0">>, mnemo |-> "OPCODE_st_6"],
     [Callback |-> "sty4_Callback", Opcode_String |-> <<"1","0","q","0"," ","q","q","1","r"," "," ","r","r","r","r"," ","1","q","q","q">>, mnemo |-> "OPCODE_std_1"],
     [Callback |-> "stz1_Callback", Opcode_String |-> <<"1","0","0","0"," ","0","0","1","r"," "," ","r","r","r","r"," ","0","0","0","0">>, mnemo |-> "OPCODE_st_7"],
     [Callback |-> "stz2_Callback", Opcode_String |-> <<"1","0","0","1"," ","0","0","1","r"," "," ","r","r","r","r"," ","0","0","0","1">>, mnemo |-> "OPCODE_st_8"],
     [Callback |-> "stz3_Callback", Opcode_String |-> <<"1","0","0","1"," ","0","0","1","r"," "," ","r","r","r","r"," ","0","0","1","0">>, mnemo |-> "OPCODE_st_9"],
     [Callback |-> "stz4_Callback", Opcode_String |-> <<"1","0","q","0"," ","q","q","1","r"," "," ","r","r","r","r"," ","0","q","q","q">>, mnemo |-> "OPCODE_std_2"],
     [Callback |-> "sts_Callback", Opcode_String |-> <<"1","0","0","1"," ","0","0","1","d"," "," ","d","d","d","d"," ","0","0","0","0"," "," "," "," ","k","k","k","k"," ","k","k","k","k"," "," ","k","k","k","k"," ","k","k","k","k">>, mnemo |-> "OPCODE_sts"],
     [Callback |-> "sub_Callback", Opcode_String |-> <<"0","0","0","1"," ","1","0","r","d"," "," ","d","d","d","d"," ","r","r","r","r">>, mnemo |-> "OPCODE_sub"],
     [Callback |-> "subi_Callback", Opcode_String |-> <<"0","1","0","1"," ","K","K","K","K"," "," ","d","d","d","d"," ","K","K","K","K">>, mnemo |-> "OPCODE_subi"],
     [Callback |-> "swap_Callback", Opcode_String |-> <<"1","0","0","1"," ","0","1","0","d"," "," ","d","d","d","d"," ","0","0","1","0">>, mnemo |-> "OPCODE_swap"],
     [Callback |-> "wdr_Callback", Opcode_String |-> <<"1","0","0","1"," ","0","1","0","1"," "," ","1","0","1","0"," ","1","0","0","0">>, mnemo |-> "OPCODE_wdr"] >>

SupersedeTable ==
  << [Callback |-> "adc_Callback_PC", mnemo |-> "OPCODE_adc"],
     [Callback |-> "add_Callback_PC", mnemo |-> "OPCODE_add"],
     [Callback |-> "sub_Callback_PC", mnemo |-> "OPCODE_sub"],
     [Callback |-> "sbc_Callback_PC", mnemo |-> "OPCODE_sbc"],
     [Callback |-> "mov_Callback_PC", mnemo |-> "OPCODE_mov"],
     [Callback |-> "brcc_Callback_PC", mnemo |-> "OPCODE_brcc"],
     [Callback |-> "brcs_Callback_PC", mnemo |-> "OPCODE_brcs"],
     [Callback |-> "breq_Callback_PC", mnemo |-> "OPCODE_breq"],
     [Callback |-> "brge_Callback_PC", mnemo |-> "OPCODE_brge"],
     [Callback |-> "brhc_Callback_PC", mnemo |-> "OPCODE_brhc"],
     [Callback |-> "brhs_Callback_PC", mnemo |-> "OPCODE_brhs"],
     [Callback |-> "brid_Callback_PC", mnemo |-> "OPCODE_brid"],
     [Callback |-> "brie_Callback_PC", mnemo |-> "OPCODE_brie"],
     [Callback |-> "brlo_Callback_PC", mnemo |-> "OPCODE_brlo"],
     [Callback |-> "brlt_Callback_PC", mnemo |-> "OPCODE_brlt"],
     [Callback |-> "brmi_Callback_PC", mnemo |-> "OPCODE_brmi"],
     [Callback |-> "brne_Callback_PC", mnemo |-> "OPCODE_brne"],
     [Callback |-> "brpl_Callback_PC", mnemo |-> "OPCODE_brpl"],
     [Callback |-> "brsh_Callback_PC", mnemo |-> "OPCODE_brsh"],
     [Callback |-> "brtc_Callback_PC", mnemo |-> "OPCODE_brtc"],
     [Callback |-> "brts_Callback_PC", mnemo |-> "OPCODE_brts"],
     [Callback |-> "brvc_Callback_PC", mnemo |-> "OPCODE_brvc"],
     [Callback |-> "brvs_Callback_PC", mnemo |-> "OPCODE_brvs"],
     [Callback |-> "out_Callback_PC", mnemo |-> "OPCODE_out"],
     [Callback |-> "in_Callback_PC", mnemo |-> "OPCODE_in"],
     [Callback |-> "cli_Callback_PC", mnemo |-> "OPCODE_cli"],
     [Callback |-> "sei_Callback_PC", mnemo |-> "OPCODE_sei"],
     [Callback |-> "ret_Callback_PC", mnemo |-> "OPCODE_ret"],
     [Callback |-> "reti_Callback_PC", mnemo |-> "OPCODE_reti"],
     [Callback |-> "andi_Callback_PC", mnemo |-> "OPCODE_andi"],
     [Callback |-> "subi_Callback_PC", mnemo |-> "OPCODE_subi"],
     [Callback |-> "sbci_Callback_PC", mnemo |-> "OPCODE_sbci"],
     [Callback |-> "sbr_Callback_PC", mnemo |-> "OPCODE_sbr"],
     [Callback |-> "ori_Callback_PC", mnemo |-> "OPCODE_ori"],
     [Callback |-> "ldi_Callback_PC", mnemo |-> "OPCODE_ldi"],
     [Callback |-> "lds_Callback_PC", mnemo |-> "OPCODE_lds"],
     [Callback |-> "sts_Callback_PC", mnemo |-> "OPCODE_sts"],
     [Callback |-> "call_Callback_PC", mnemo |-> "OPCODE_call"],
     [Callback |-> "rcall_Callback_PC", mnemo |-> "OPCODE_rcall"],
     [Callback |-> "ror_Callback_PC", mnemo |-> "OPCODE_ror"],
     [Callback |-> "lsr_Callback_PC", mnemo |-> "OPCODE_lsr"],
     [Callback |-> "eor_Callback_PC", mnemo |-> "OPCODE_eor"],
     [Callback |-> "swap_Callback_PC", mnemo |-> "OPCODE_swap"],
     [Callback |-> "jmp_Callback_PC", mnemo |-> "OPCODE_jmp"],
     [Callback |-> "rjmp_Callback_PC", mnemo |-> "OPCODE_rjmp"],
     [Callback |-> "cpi_Callback_PC", mnemo |-> "OPCODE_cpi"],
     [Callback |-> "asr_Callback_PC", mnemo |-> "OPCODE_asr"],
     [Callback |-> "inc_Callback_PC", mnemo |-> "OPCODE_inc"],
     [Callback |-> "dec_Callback_PC", mnemo |-> "OPCODE_dec"],
     [Callback |-> "cp_Callback_PC", mnemo |-> "OPCODE_cp"],
     [Callback |-> "cpc_Callback_PC", mnemo |-> "OPCODE_cpc"],
     [Callback |-> "cpse_Callback_PC", mnemo |-> "OPCODE_cpse"],
     [Callback |-> "and_Callback_PC", mnemo |-> "OPCODE_and"],
     [Callback |-> "or_Callback_PC", mnemo |-> "OPCODE_or"],
     [Callback |-> "mul_Callback_PC", mnemo |-> "OPCODE_mul"],
     [Callback |-> "sbi_Callback_PC", mnemo |-> "OPCODE_sbi"],
     [Callback |-> "sbis_Callback_PC", mnemo |-> "OPCODE_sbis"],
     [Callback |-> "sbic_Callback_PC", mnemo |-> "OPCODE_sbic"],
     [Callback |-> "cbi_Callback_PC", mnemo |-> "OPCODE_cbi"],
     [Callback |-> "ser_Callback_PC", mnemo |-> "OPCODE_ser"],
     [Callback |-> "movw_Callback_PC", mnemo |-> "OPCODE_movw"],
     [Callback |-> "adiw_Callback_PC", mnemo |-> "OPCODE_adiw"],
     [Callback |-> "lpm1_Callback_PC", mnemo |-> "OPCODE_lpm_1"],
     [Callback |-> "stx2_Callback_PC", mnemo |-> "OPCODE_st_2"] >>

(***************************************************************************)
(* Characters that index cx->dis_regs: every character a registered        *)
(* pattern or a test pattern holds, and '?' (Get_From_Bitmask's default).  *)
(***************************************************************************)
Chars == {"0", "1", " ", "x", "?", "A", "K", "b", "d", "k", "q", "r", "s"}

Bytes == 0..255

\* cx->dis_op[i]: the C array cx->dis_op[0 .. dis_n_ops - 1] is a sequence
At(op, i) == op[i + 1]

\* strlen(Bitmask)
strlen(s) == Len(s)

\* n ^ 1 on a non-negative int ("Invert last bit")
Xor1(n) == IF n % 2 = 0 THEN n + 1 ELSE n - 1

\* (b >> n) & 0x01 on a byte
BitOf(b, n) == (b \div (2 ^ n)) % 2

\* The element of a set of one element
The(S) == CHOOSE x \in S : TRUE

\* The characters of a pattern that are not a space, in order
Significant(Bitmask) == SelectSeq(Bitmask, LAMBDA c : c # " ")

\* Get_Bitmask_Length: the number of characters that are not a space
Get_Bitmask_Length(Bitmask) == Len(Significant(Bitmask))

\* Clear_Registers: cx->dis_regs[i] = 0 for every i
Clear_Registers == [c \in Chars |-> 0]

\* Get_From_Bitmask: the GetBit-th non-space character, '?' when there is none
Get_From_Bitmask(Bitmask, Byte, Bit) ==
  LET GetBit == (Byte * 8) + Bit
      sig    == Significant(Bitmask)
  IN  IF GetBit < Len(sig) THEN sig[GetBit + 1] ELSE "?"

\* A matcher that takes the bytes in the order the pattern writes them
Byte_Stream_Of_Unswapped(i) == i \div 8

\* The stream byte that pattern position i is compared with
Byte_Stream_Of(i) == Xor1(i \div 8)

\* A matcher that takes the bits of a byte lowest first
Bit_Stream_Of_Low_First(i) == i % 8

\* The bit of that byte
Bit_Stream_Of(i) == 7 - (i % 8)

\* A matcher that leaves the shift out: cx->dis_regs[Mask_Val] |= Stream_Val
Shift_In_Without_Shift(v, Stream_Val) ==
  IF Stream_Val = 1 /\ v % 2 = 0 THEN v + 1 ELSE v

\* Lines 195-196: cx->dis_regs[Mask_Val] <<= 1; cx->dis_regs[Mask_Val] |= Stream_Val
Shift_In(v, Stream_Val) == (v * 2) + Stream_Val

(***************************************************************************)
(* Match_Opcode(Bitmask, Bitstream + Pos).  mem is the memory the pointer  *)
(* points into, byte k of it being At(mem, k).  The result holds the       *)
(* return value, cx->dis_regs after the call and the number of pattern     *)
(* positions whose stream bit the call has read.                           *)
(***************************************************************************)
RECURSIVE Match_Loop(_, _, _, _, _, _)
Match_Loop(Bitmask, mem, Pos, Length, i, regs) ==
  IF i >= Length THEN [ret |-> 1, dis_regs |-> regs, bits |-> i]
  ELSE LET Mask_Val   == Get_From_Bitmask(Bitmask, i \div 8, i % 8)
           Stream_Val == BitOf(At(mem, Pos + Byte_Stream_Of(i)), Bit_Stream_Of(i))
       IN  IF Mask_Val = "0" \/ Mask_Val = "1"
           THEN IF (Mask_Val = "0" /\ Stream_Val = 1) \/ (Mask_Val = "1" /\ Stream_Val = 0)
                THEN [ret |-> 0, dis_regs |-> regs, bits |-> i + 1]
                ELSE Match_Loop(Bitmask, mem, Pos, Length, i + 1, regs)
           ELSE Match_Loop(Bitmask, mem, Pos, Length, i + 1,
                           [regs EXCEPT ![Mask_Val] = Shift_In(@, Stream_Val)])

\* A matcher that takes a character other than '0', '1', 'x' as a non-match
Match_Opcode_Rejecting_Fields(Bitmask, mem, Pos) ==
  IF \E k \in 1..Len(Bitmask) : Bitmask[k] \notin {"0", "1", "x", " "}
  THEN [ret |-> 0, dis_regs |-> Clear_Registers, bits |-> 0]
  ELSE Match_Loop(Bitmask, mem, Pos, Get_Bitmask_Length(Bitmask), 0, Clear_Registers)

Match_Opcode(Bitmask, mem, Pos) ==
  Match_Loop(Bitmask, mem, Pos, Get_Bitmask_Length(Bitmask), 0, Clear_Registers)

\* The memory indices a Match_Opcode call at Pos reads when it looks at n positions
Stream_Reads(Pos, n) == {Pos + Byte_Stream_Of(i) : i \in 0..(n - 1)}

(***************************************************************************)
(* Get_Next_Opcode(Bitstream + Pos): the index of the first entry of       *)
(* cx->dis_op that Match_Opcode accepts, -1 when there is none.  The loop  *)
(* over i = lo .. hi is run as the loop over the first half (first), then, *)
(* when that one has not returned, the loop over the second.  tried is the *)
(* number of Match_Opcode calls made, bits the most positions one read.    *)
(***************************************************************************)
RECURSIVE Next_Opcode_Loop(_, _, _, _, _, _, _)
Next_Opcode_Loop(op, lo, hi, mem, Pos, regs, bits) ==
  IF lo > hi
  THEN [Opcode |-> -1, dis_regs |-> regs, bits |-> bits, tried |-> lo]
  ELSE IF lo = hi
  THEN The({[Opcode |-> IF m.ret = 1 THEN lo ELSE -1, dis_regs |-> m.dis_regs,
             bits |-> IF m.bits > bits THEN m.bits ELSE bits, tried |-> lo + 1]
            : m \in {Match_Opcode(At(op, lo).Opcode_String, mem, Pos)}})
  ELSE The({IF first.Opcode # -1 THEN first
            ELSE Next_Opcode_Loop(op, ((lo + hi) \div 2) + 1, hi, mem, Pos,
                                  first.dis_regs, first.bits)
            : first \in {Next_Opcode_Loop(op, lo, (lo + hi) \div 2, mem, Pos,
                                          regs, bits)}})

\* A resolver whose loop starts at i = 1
Get_Next_Opcode_From_1(op, n_ops, regs, mem, Pos) ==
  The({[Opcode |-> r.Opcode, dis_regs |-> r.dis_regs, tried |-> r.tried,
        reads |-> Stream_Reads(Pos, r.bits)]
       : r \in {Next_Opcode_Loop(op, 1, n_ops - 1, mem, Pos, regs, 0)}})

Get_Next_Opcode(op, n_ops, regs, mem, Pos) ==
  The({[Opcode |-> r.Opcode, dis_regs |-> r.dis_regs, tried |-> r.tried,
        reads |-> Stream_Reads(Pos, r.bits)]
       : r \in {Next_Opcode_Loop(op, 0, n_ops - 1, mem, Pos, regs, 0)}})

\* Get_Specifity: the number of '0' and '1' characters
Get_Specifity(Opcode) ==
  Cardinality({i \in 1..strlen(Opcode) : Opcode[i] = "0" \/ Opcode[i] = "1"})

\* A comparison that orders by specificity the other way round
Comparison_Ascending(Element1, Element2) ==
  LET SP1 == Get_Specifity(Element1.Opcode_String)
      SP2 == Get_Specifity(Element2.Opcode_String)
  IN  IF SP1 < SP2 THEN -1 ELSE IF SP2 = SP1 THEN 0 ELSE 1

\* Comparison, the order handed to qsort
Comparison(Element1, Element2) ==
  LET SP1 == Get_Specifity(Element1.Opcode_String)
      SP2 == Get_Specifity(Element2.Opcode_String)
  IN  IF SP1 < SP2 THEN 1 ELSE IF SP2 = SP1 THEN 0 ELSE -1

\* A registration that keeps the first 20 characters of a pattern, one word's worth
Register_Opcode_One_Word(op, Callback, New_Opcode_String, mnemo) ==
  Append(op, [Opcode_String |-> SubSeq(New_Opcode_String, 1,
                                       IF Len(New_Opcode_String) > 20 THEN 20
                                       ELSE Len(New_Opcode_String)),
              mnemo |-> mnemo, Callback |-> Callback])

\* Register_Opcode: one more entry, at index dis_n_ops - 1 after the increment
Register_Opcode(op, Callback, New_Opcode_String, mnemo) ==
  Append(op, [Opcode_String |-> New_Opcode_String, mnemo |-> mnemo,
              Callback |-> Callback])

(***************************************************************************)
(* Supersede_Opcode: the first entry with this mnemonic gets the callback; *)
(* when there is none the error is printed and the registry is unchanged.  *)
(***************************************************************************)
RECURSIVE Supersede_Loop(_, _, _, _, _)
Supersede_Loop(op, lo, hi, Callback, mnemo) ==
  IF lo > hi THEN [dis_op |-> op, error |-> TRUE]
  ELSE IF lo = hi
  THEN IF At(op, lo).mnemo = mnemo
       THEN [dis_op |-> [op EXCEPT ![lo + 1].Callback = Callback], error |-> FALSE]
       ELSE [dis_op |-> op, error |-> TRUE]
  ELSE The({IF ~first.error THEN first
            ELSE Supersede_Loop(op, ((lo + hi) \div 2) + 1, hi, Callback, mnemo)
            : first \in {Supersede_Loop(op, lo, (lo + hi) \div 2, Callback, mnemo)}})

\* A Supersede_Opcode whose loop starts at i = 1
Supersede_Opcode_From_1(op, Callback, mnemo) ==
  Supersede_Loop(op, 1, Len(op) - 1, Callback, mnemo)

\* The loop over i = 0 .. dis_n_ops - 1 is run as the loops over two halves
Supersede_Opcode(op, Callback, mnemo) ==
  Supersede_Loop(op, 0, Len(op) - 1, Callback, mnemo)

(***************************************************************************)
(* qsort(cx->dis_op, cx->dis_n_ops, sizeof(Disasm_opcode), Comparison).    *)
(* The result is ordered by Comparison; the C library leaves the order of  *)
(* elements that compare equal unspecified.  TieKey(t, n, i) ranks the     *)
(* element of original index i among its equals under the t-th tie order:  *)
(* t = 0 keeps the original order, t = 1 reverses it, t = 2, 3, ... do the  *)
(* same after rotating the indices by t \div 2.                            *)
(***************************************************************************)
MaxTieOrder == 1

TieOrders == 0..MaxTieOrder

TieKey(t, n, i) ==
  LET r == (i + (t \div 2)) % n
  IN  IF t % 2 = 0 THEN r ELSE -r

\* base[i] is placed before base[j]
Sorts_Before(base, nmemb, t, i, j) ==
  LET c == Comparison(base[i], base[j])
  IN  c < 0 \/ (c = 0 /\ TieKey(t, nmemb, i) < TieKey(t, nmemb, j))

\* A disasm that leaves the qsort call out
qsort_Left_Out(base, nmemb, t) == base

qsort(base, nmemb, t) ==
  The({SubSeq([r \in 1..nmemb |-> base[CHOOSE i \in 1..nmemb : rank[i] = r - 1]],
              1, nmemb)
       : rank \in {SubSeq([i \in 1..nmemb |->
                             Cardinality({j \in 1..nmemb :
                                            Sorts_Before(base, nmemb, t, j, i)})],
                          1, nmemb)}})

(***************************************************************************)
(* Bounds of the model.                                                    *)
(***************************************************************************)
\* The buffer handed to disasm holds at most MaxRead bytes
MaxRead == 4

\* Tagfile_Process_Data reports at most MaxAdded bytes
MaxAdded == 2

\* The words buffers are made of, low byte first as in the stream:
\* 0x0000 (nop), 0x940e (the first word of call), 0xffff (no opcode)
WordVals == {<<0, 0>>, <<14, 148>>, <<255, 255>>}

\* The values a read past the end of the buffer may yield
PadVals == {0, 255}

\* What a render-handler may leave in cx->dis_code, dis_comment, dis_after_code
Renderings ==
  {[code |-> "", comment |-> "comment", after |-> ""],
   [code |-> "code", comment |-> "", after |-> "after"],
   [code |-> "code", comment |-> "comment", after |-> "after"]}

CodeStyles == {"CODESTYLE_AVR_INSTRUCTION_SET", "CODESTYLE_AVRGCC"}

\* Every value of cx->dis_opts when disasm is called
AllOptions ==
  [Process_Labels : BOOLEAN, Show_PseudoCode : BOOLEAN, CodeStyle : CodeStyles,
   Show_Addresses : BOOLEAN, Show_Cycles : BOOLEAN, Show_Opcodes : BOOLEAN,
   Show_Comments : BOOLEAN, Pass : {0}]

\* The options that decide what Disassemble runs are all at their defaults
Default_Control(o) ==
  o.Process_Labels /\ ~o.Show_PseudoCode /\ o.CodeStyle = "CODESTYLE_AVR_INSTRUCTION_SET"

\* The options that decide what a line shows are all set
Default_Display(o) ==
  o.Show_Addresses /\ o.Show_Cycles /\ o.Show_Opcodes /\ o.Show_Comments

\* The option values explored: one of the two groups is at its default
OptionCases == {o \in AllOptions : Default_Control(o) \/ Default_Display(o)}

VARIABLES
  pc,             \* the statement of disasm / Disassemble that runs next
  ret,            \* disasm's return value, "none" until it returns
  dis_opts,       \* cx->dis_opts
  qsort_order,    \* how the C library's qsort orders elements that compare equal
  dis_op,         \* cx->dis_op[0 .. dis_n_ops - 1]
  dis_n_ops,      \* cx->dis_n_ops
  dis_regs,       \* cx->dis_regs
  dis_code,       \* cx->dis_code
  dis_comment,    \* cx->dis_comment
  dis_after_code, \* cx->dis_after_code
  Bitstream,      \* the Read bytes of the buffer
  Read,           \* the buffer length
  Pos,            \* Disassemble's cursor
  Opcode,         \* Disassemble's Opcode
  stdout,         \* what the last statement printed
  stderr,         \* the errors reported so far
  iter,           \* what the last loop iteration did
  n_enumerate,    \* calls of Enumerate_Labels so far
  n_emit_io,      \* calls of Emit_Used_IO_Registers so far
  pass1_calls     \* <<position, mnemonic>> of every handler call of the first loop

vars == <<pc, ret, dis_opts, qsort_order, dis_op, dis_n_ops, dis_regs, dis_code, dis_comment,
          dis_after_code, Bitstream, Read, Pos, Opcode, stdout, stderr, iter,
          n_enumerate, n_emit_io, pass1_calls>>

NoIter == [loop |-> "none", from |-> 0, Added |-> 0, tried |-> 0, calls |-> <<>>,
           reads |-> {}]

\* The memory behind Bitstream: the buffer, then g where a read goes past it
Memory(buf, g) == buf \o <<g, g, g>>

\* The buffers explored: up to MaxRead bytes of one word repeated
Image(w) == [k \in 1..MaxRead |-> w[2 - (k % 2)]]

Buffers == {SubSeq(Image(w), 1, n) : w \in WordVals, n \in 0..MaxRead}

\* The state in which disasm is entered with options o, linked with qsort order t
Start(o, t) ==
  /\ pc = "disasm"
  /\ ret = "none"
  /\ dis_opts = o
  /\ qsort_order = t
  /\ dis_op = <<>>
  /\ dis_n_ops = 0
  /\ dis_regs = Clear_Registers
  /\ dis_code = ""
  /\ dis_comment = ""
  /\ dis_after_code = ""
  /\ Bitstream = <<>>
  /\ Read = 0
  /\ Pos = 0
  /\ Opcode = -1
  /\ stdout = <<>>
  /\ stderr = {}
  /\ iter = NoIter
  /\ n_enumerate = 0
  /\ n_emit_io = 0
  /\ pass1_calls = {}

\* Every option case with the qsort that keeps equal elements in place, and
\* every qsort order with the default options
Init ==
  \E o \in OptionCases, t \in TieOrders :
    /\ (t = 0 \/ (Default_Control(o) /\ Default_Display(o)))
    /\ Start(o, t)

(***************************************************************************)
(* The Register_Opcode calls lo .. hi of disasm, in order: the first half  *)
(* of the calls (done), then the second half on their result.              *)
(***************************************************************************)
RECURSIVE Register_All(_, _, _)
Register_All(op, lo, hi) ==
  IF lo > hi THEN op
  ELSE IF lo = hi
  THEN Register_Opcode(op, OpcodeTable[lo].Callback, OpcodeTable[lo].Opcode_String,
                       OpcodeTable[lo].mnemo)
  ELSE The({Register_All(done, ((lo + hi) \div 2) + 1, hi)
            : done \in {Register_All(op, lo, (lo + hi) \div 2)}})

\* The Supersede_Opcode calls lo .. hi of disasm, in order
RECURSIVE Supersede_All(_, _, _)
Supersede_All(r, lo, hi) ==
  IF lo > hi THEN r
  ELSE IF lo = hi
  THEN The({[dis_op |-> s.dis_op,
             errors |-> r.errors \cup
                        (IF s.error THEN {SupersedeTable[lo].mnemo} ELSE {})]
            : s \in {Supersede_Opcode(r.dis_op, SupersedeTable[lo].Callback,
                                      SupersedeTable[lo].mnemo)}})
  ELSE The({Supersede_All(done, ((lo + hi) \div 2) + 1, hi)
            : done \in {Supersede_All(r, lo, (lo + hi) \div 2)}})

(***************************************************************************)
(* disasm, lines 352-354: with a tag file that Read_Tagfile cannot read    *)
(* disasm returns 0.  The option and Read_Tagfile's answer are inputs.     *)
(***************************************************************************)
disasm_ReadTagfile ==
  /\ pc = "disasm"
  /\ \E tagfile_unreadable \in BOOLEAN :
       IF tagfile_unreadable
       THEN /\ ret' = "0"
            /\ pc' = "returned"
       ELSE /\ ret' = ret
            /\ pc' = "register"
  /\ UNCHANGED <<dis_opts, qsort_order, dis_op, dis_n_ops, dis_regs, dis_code, dis_comment,
                 dis_after_code, Bitstream, Read, Pos, Opcode, stdout, stderr, iter,
                 n_enumerate, n_emit_io, pass1_calls>>

\* disasm, lines 391-527
disasm_Register ==
  /\ pc = "register"
  /\ dis_op' = Register_All(<<>>, 1, Len(OpcodeTable))
  /\ dis_n_ops' = Len(dis_op')
  /\ pc' = "supersede"
  /\ UNCHANGED <<ret, dis_opts, qsort_order, dis_regs, dis_code, dis_comment, dis_after_code,
                 Bitstream, Read, Pos, Opcode, stdout, stderr, iter, n_enumerate,
                 n_emit_io, pass1_calls>>

\* A disasm that makes the Supersede_Opcode calls whatever Show_PseudoCode is
disasm_Supersede_Always ==
  /\ pc = "supersede"
  /\ \E r \in {Supersede_All([dis_op |-> dis_op, errors |-> {}], 1,
                              Len(SupersedeTable))} :
       /\ dis_op' = r.dis_op
       /\ stderr' = stderr \cup {<<"no callback to supersede", m>> : m \in r.errors}
  /\ pc' = "qsort"
  /\ UNCHANGED <<ret, dis_opts, qsort_order, dis_n_ops, dis_regs, dis_code, dis_comment,
                 dis_after_code, Bitstream, Read, Pos, Opcode, stdout, iter,
                 n_enumerate, n_emit_io, pass1_calls>>

\* disasm, lines 529-594
disasm_Supersede ==
  /\ pc = "supersede"
  /\ IF dis_opts.Show_PseudoCode
     THEN \E r \in {Supersede_All([dis_op |-> dis_op, errors |-> {}], 1,
                                   Len(SupersedeTable))} :
            /\ dis_op' = r.dis_op
            /\ stderr' = stderr \cup {<<"no callback to supersede", m>> : m \in r.errors}
     ELSE UNCHANGED <<dis_op, stderr>>
  /\ pc' = "qsort"
  /\ UNCHANGED <<ret, dis_opts, qsort_order, dis_n_ops, dis_regs, dis_code, dis_comment,
                 dis_after_code, Bitstream, Read, Pos, Opcode, stdout, iter,
                 n_enumerate, n_emit_io, pass1_calls>>

\* disasm, line 596
disasm_Sort ==
  /\ pc = "qsort"
  /\ dis_op' = qsort(dis_op, dis_n_ops, qsort_order)
  /\ pc' = "check"
  /\ UNCHANGED <<ret, dis_opts, qsort_order, dis_n_ops, dis_regs, dis_code, dis_comment,
                 dis_after_code, Bitstream, Read, Pos, Opcode, stdout, stderr, iter,
                 n_enumerate, n_emit_io, pass1_calls>>

\* A disasm that reports the broken table and goes on to Disassemble
disasm_CheckTable_Without_Return ==
  /\ pc = "check"
  /\ \E table_broken \in BOOLEAN :
       stderr' = IF table_broken
                 THEN stderr \cup {<<"avr_opcodes[] table broken">>}
                 ELSE stderr
  /\ pc' = "Disassemble"
  /\ UNCHANGED <<ret, dis_opts, qsort_order, dis_op, dis_n_ops, dis_regs, dis_code,
                 dis_comment, dis_after_code, Bitstream, Read, Pos, Opcode, stdout, iter,
                 n_enumerate, n_emit_io, pass1_calls>>

(***************************************************************************)
(* disasm, lines 598-604: the check of avr_opcodes[], a table of another   *)
(* file, then the call of Disassemble with disasm's own arguments.         *)
(***************************************************************************)
disasm_CheckTable ==
  /\ pc = "check"
  /\ \E table_broken \in BOOLEAN :
       IF table_broken
       THEN /\ stderr' = stderr \cup {<<"avr_opcodes[] table broken">>}
            /\ ret' = "-1"
            /\ pc' = "returned"
       ELSE /\ UNCHANGED <<stderr, ret>>
            /\ pc' = "Disassemble"
  /\ UNCHANGED <<dis_opts, qsort_order, dis_op, dis_n_ops, dis_regs, dis_code, dis_comment,
                 dis_after_code, Bitstream, Read, Pos, Opcode, stdout, iter,
                 n_enumerate, n_emit_io, pass1_calls>>

\* A driver that runs the first loop for labels only
Pass1_Wanted_Labels_Only(opts) == opts.Process_Labels

\* The condition of line 225 under which the first loop runs
Pass1_Wanted(opts) ==
  opts.Process_Labels
  \/ (~opts.Show_PseudoCode /\ opts.CodeStyle = "CODESTYLE_AVRGCC")

\* A driver that takes every instruction to be one word long
Opcode_Bytes_One_Word(op, i) == 2

\* The bytes one matched instruction takes: Get_Bitmask_Length(...) / 8
Opcode_Bytes(op, i) == Get_Bitmask_Length(At(op, i).Opcode_String) \div 8

\* A driver that clears the fields before it calls the handler
Callback_Call_After_Clear(op, i, pos, pass, regs) ==
  [Callback |-> At(op, i).Callback, Pos |-> pos, mnemo |-> At(op, i).mnemo,
   Pass |-> pass, dis_regs |-> Clear_Registers]

(***************************************************************************)
(* A render-handler, cx->dis_op[Opcode].Callback(Bitstream + Pos, Pos,     *)
(* mnemo), is code of another file: it reads cx->dis_regs and may write    *)
(* the three output buffers.  The record is what the call was made with.   *)
(***************************************************************************)
Callback_Call(op, i, pos, pass, regs) ==
  [Callback |-> At(op, i).Callback, Pos |-> pos, mnemo |-> At(op, i).mnemo,
   Pass |-> pass, dis_regs |-> regs]

(***************************************************************************)
(* The outcomes of Get_Next_Opcode(Bitstream + Pos) on a buffer of len     *)
(* bytes: the one outcome when every read stays inside the buffer, else    *)
(* one for each value the bytes behind the buffer may hold.                *)
(***************************************************************************)
Resolutions(op, n_ops, regs, buf, len, pos) ==
  UNION {IF r0.reads \subseteq 0..(len - 1)
         THEN {r0}
         ELSE {r0} \cup {Get_Next_Opcode(op, n_ops, regs, Memory(buf, g), pos)
                         : g \in PadVals \ {The(PadVals)}}
         : r0 \in {Get_Next_Opcode(op, n_ops, regs, Memory(buf, The(PadVals)), pos)}}

\* A driver that leaves the cursor where no entry matches
Skip_Invalid_Stuck(pos) == pos

\* A driver that skips one byte where no entry matches
Skip_Invalid_One(pos) == pos + 1

\* Lines 230 and 305: the cursor after a position no entry matches
Skip_Invalid(pos) == pos + 2

\* A driver that skips one word whatever Tagfile_Process_Data reports
Skip_Data_Word(pos, Added) == pos + 2

\* Line 251: the cursor after Tagfile_Process_Data has added data
Skip_Data(pos, Added) == pos + Added

\* Lines 303-304: the placeholder printed for a position no entry matches
Invalid_Line(pos) == <<<<"invalid opcode", pos + 1, pos>>>>

\* Disassemble, lines 217-225: the arguments, Pass = 1, Pos = 0, the choice of line 225
Disassemble_Begin ==
  /\ pc = "Disassemble"
  /\ \E buf \in Buffers :
       /\ Bitstream' = buf
       /\ Read' = Len(buf)
  /\ dis_opts' = [dis_opts EXCEPT !.Pass = 1]
  /\ Pos' = 0
  /\ pc' = IF Pass1_Wanted(dis_opts) THEN "pass1" ELSE "emit_io"
  /\ UNCHANGED <<ret, qsort_order, dis_op, dis_n_ops, dis_regs, dis_code,
                 dis_comment, dis_after_code, Opcode, stdout, stderr, iter,
                 n_enumerate, n_emit_io, pass1_calls>>

\* Disassemble, line 227: the first loop's test holds, an iteration begins
Pass1_Test ==
  /\ pc = "pass1"
  /\ Pos < Read
  /\ pc' = "pass1_body"
  /\ iter' = NoIter
  /\ stdout' = <<>>
  /\ UNCHANGED <<ret, dis_opts, qsort_order, dis_op, dis_n_ops, dis_regs, dis_code,
                 dis_comment, dis_after_code, Bitstream, Read, Pos, Opcode, stderr,
                 n_enumerate, n_emit_io, pass1_calls>>

\* Disassemble, lines 228-234: the body of the first loop
Pass1_Step ==
  /\ pc = "pass1_body"
  /\ \E r \in Resolutions(dis_op, dis_n_ops, dis_regs, Bitstream, Read, Pos) :
       /\ Opcode' = r.Opcode
       /\ dis_regs' = r.dis_regs
       /\ IF r.Opcode = -1
          THEN /\ Pos' = Skip_Invalid(Pos)
               /\ iter' = [loop |-> "pass1", from |-> Pos, Added |-> 0,
                           tried |-> r.tried, calls |-> <<>>, reads |-> r.reads]
               /\ UNCHANGED <<dis_code, dis_comment, dis_after_code, pass1_calls>>
          ELSE /\ \E w \in Renderings :
                    /\ dis_code' = w.code
                    /\ dis_comment' = w.comment
                    /\ dis_after_code' = w.after
               /\ Pos' = Pos + Opcode_Bytes(dis_op, r.Opcode)
               /\ iter' = [loop |-> "pass1", from |-> Pos, Added |-> 0,
                           tried |-> r.tried,
                           calls |-> <<Callback_Call(dis_op, r.Opcode, Pos,
                                                     dis_opts.Pass, r.dis_regs)>>,
                           reads |-> r.reads]
               /\ pass1_calls' = pass1_calls \cup {<<Pos, At(dis_op, r.Opcode).mnemo>>}
  /\ pc' = "pass1"
  /\ UNCHANGED <<ret, dis_opts, qsort_order, dis_op, dis_n_ops, Bitstream, Read,
                 stdout, stderr, n_enumerate, n_emit_io>>

\* A driver that leaves the loop without the Enumerate_Labels call
Pass1_End_Without_Enumerate ==
  /\ pc = "pass1"
  /\ ~(Pos < Read)
  /\ dis_opts' = [dis_opts EXCEPT !.Pass = 2]
  /\ Pos' = 0
  /\ pc' = "emit_io"
  /\ iter' = NoIter
  /\ stdout' = <<>>
  /\ UNCHANGED <<ret, qsort_order, dis_op, dis_n_ops, dis_regs, dis_code,
                 dis_comment, dis_after_code, Bitstream, Read, Opcode, stderr,
                 n_enumerate, n_emit_io, pass1_calls>>

\* Disassemble, lines 227 and 236-238: the first loop ends
Pass1_End ==
  /\ pc = "pass1"
  /\ ~(Pos < Read)
  /\ n_enumerate' = n_enumerate + 1
  /\ dis_opts' = [dis_opts EXCEPT !.Pass = 2]
  /\ Pos' = 0
  /\ pc' = "emit_io"
  /\ iter' = NoIter
  /\ stdout' = <<>>
  /\ UNCHANGED <<ret, qsort_order, dis_op, dis_n_ops, dis_regs, dis_code,
                 dis_comment, dis_after_code, Bitstream, Read, Opcode, stderr,
                 n_emit_io, pass1_calls>>

\* Disassemble, lines 241-242
Emit_IO_Registers ==
  /\ pc = "emit_io"
  /\ n_emit_io' = IF dis_opts.CodeStyle = "CODESTYLE_AVRGCC"
                  THEN n_emit_io + 1 ELSE n_emit_io
  /\ pc' = "pass2"
  /\ UNCHANGED <<ret, dis_opts, qsort_order, dis_op, dis_n_ops, dis_regs, dis_code,
                 dis_comment, dis_after_code, Bitstream, Read, Pos, Opcode, stdout,
                 stderr, iter, n_enumerate, pass1_calls>>

\* Disassemble, line 244: the second loop's test holds, an iteration begins
Pass2_Test ==
  /\ pc = "pass2"
  /\ Pos < Read
  /\ pc' = "pass2_body"
  /\ iter' = NoIter
  /\ stdout' = <<>>
  /\ UNCHANGED <<ret, dis_opts, qsort_order, dis_op, dis_n_ops, dis_regs, dis_code,
                 dis_comment, dis_after_code, Bitstream, Read, Pos, Opcode, stderr,
                 n_enumerate, n_emit_io, pass1_calls>>

\* Disassemble, lines 245-253: Tagfile_Process_Data adds data
Pass2_Data ==
  /\ pc = "pass2_body"
  /\ \E Added \in 1..MaxAdded :
       /\ Pos' = Skip_Data(Pos, Added)
       /\ iter' = [loop |-> "pass2", from |-> Pos, Added |-> Added, tried |-> 0,
                   calls |-> <<>>, reads |-> {}]
  /\ pc' = "pass2"
  /\ UNCHANGED <<ret, dis_opts, qsort_order, dis_op, dis_n_ops, dis_regs, dis_code,
                 dis_comment, dis_after_code, Bitstream, Read, Opcode, stdout,
                 stderr, n_enumerate, n_emit_io, pass1_calls>>

\* n copies of x
Times(n, x) == [k \in 1..n |-> x]

\* A driver that prints the address before the jump and call labels
Opcode_Lines_Address_First(opts, op, i, pos, code, comment, after) ==
  (IF opts.Show_Addresses THEN <<<<"address", pos>>>> ELSE <<>>)
  \o (IF opts.Process_Labels THEN <<<<"Print_JumpCalls", pos>>>> ELSE <<>>)
  \o (IF opts.Show_Cycles THEN <<<<"cycles", At(op, i).mnemo>>>> ELSE <<>>)
  \o (IF opts.Show_Opcodes
      THEN [k \in 1..Opcode_Bytes(op, i) |-> <<"byte", pos + (k - 1)>>]
           \o <<<<"space">>>>
           \o Times(5 - Opcode_Bytes(op, i), <<"pad">>)
      ELSE <<>>)
  \o (IF code = ""
      THEN <<<<"not implemented", At(op, i).mnemo>>>>
      ELSE IF comment = "" \/ ~opts.Show_Comments
           THEN <<<<"code", code>>>>
           ELSE IF ~opts.Show_PseudoCode
                THEN <<<<"code ; comment", 23, code, comment>>>>
                ELSE <<<<"code ; comment", 35, code, comment>>>>)
  \o <<<<"after_code", after>>>>

\* Lines 262-299: what the driver prints for a matched instruction, in order
Opcode_Lines(opts, op, i, pos, code, comment, after) ==
  (IF opts.Process_Labels THEN <<<<"Print_JumpCalls", pos>>>> ELSE <<>>)
  \o (IF opts.Show_Addresses THEN <<<<"address", pos>>>> ELSE <<>>)
  \o (IF opts.Show_Cycles THEN <<<<"cycles", At(op, i).mnemo>>>> ELSE <<>>)
  \o (IF opts.Show_Opcodes
      THEN [k \in 1..Opcode_Bytes(op, i) |-> <<"byte", pos + (k - 1)>>]
           \o <<<<"space">>>>
           \o Times(5 - Opcode_Bytes(op, i), <<"pad">>)
      ELSE <<>>)
  \o (IF code = ""
      THEN <<<<"not implemented", At(op, i).mnemo>>>>
      ELSE IF comment = "" \/ ~opts.Show_Comments
           THEN <<<<"code", code>>>>
           ELSE IF ~opts.Show_PseudoCode
                THEN <<<<"code ; comment", 23, code, comment>>>>
                ELSE <<<<"code ; comment", 35, code, comment>>>>)
  \o <<<<"after_code", after>>>>

\* The stream bytes the printed lines read: line 274
Opcode_Line_Reads(opts, op, i, pos) ==
  IF opts.Show_Opcodes THEN {pos + k : k \in 0..(Opcode_Bytes(op, i) - 1)} ELSE {}

\* Disassemble, lines 245-249 and 255-306: Tagfile_Process_Data adds nothing
Pass2_Decode ==
  /\ pc = "pass2_body"
  /\ \E r \in Resolutions(dis_op, dis_n_ops, dis_regs, Bitstream, Read, Pos) :
       /\ Opcode' = r.Opcode
       /\ dis_regs' = r.dis_regs
       /\ IF r.Opcode # -1
          THEN /\ \E w \in Renderings :
                    /\ dis_code' = w.code
                    /\ dis_comment' = w.comment
                    /\ dis_after_code' = w.after
               /\ stdout' = Opcode_Lines(dis_opts, dis_op, r.Opcode, Pos,
                                         dis_code', dis_comment', dis_after_code')
               /\ Pos' = Pos + Opcode_Bytes(dis_op, r.Opcode)
               /\ iter' = [loop |-> "pass2", from |-> Pos, Added |-> 0,
                           tried |-> r.tried,
                           calls |-> <<Callback_Call(dis_op, r.Opcode, Pos,
                                                     dis_opts.Pass, r.dis_regs)>>,
                           reads |-> r.reads \cup
                                     Opcode_Line_Reads(dis_opts, dis_op, r.Opcode, Pos)]
          ELSE /\ stdout' = Invalid_Line(Pos)
               /\ Pos' = Skip_Invalid(Pos)
               /\ iter' = [loop |-> "pass2", from |-> Pos, Added |-> 0,
                           tried |-> r.tried, calls |-> <<>>,
                           reads |-> r.reads \cup {Pos + 1, Pos}]
               /\ UNCHANGED <<dis_code, dis_comment, dis_after_code>>
  /\ pc' = "pass2"
  /\ UNCHANGED <<ret, dis_opts, qsort_order, dis_op, dis_n_ops, Bitstream, Read,
                 stderr, n_enumerate, n_emit_io, pass1_calls>>

\* Disassemble, lines 244 and 309-313, then disasm's return 0 (line 605)
Disassemble_End ==
  /\ pc = "pass2"
  /\ ~(Pos < Read)
  /\ stdout' = IF dis_opts.Show_PseudoCode THEN <<<<"}">>, <<"newline">>>> ELSE <<>>
  /\ iter' = NoIter
  /\ ret' = "0"
  /\ pc' = "returned"
  /\ UNCHANGED <<dis_opts, qsort_order, dis_op, dis_n_ops, dis_regs, dis_code,
                 dis_comment, dis_after_code, Bitstream, Read, Pos, Opcode, stderr,
                 n_enumerate, n_emit_io, pass1_calls>>

Next ==
  \/ disasm_ReadTagfile
  \/ disasm_Register
  \/ disasm_Supersede
  \/ disasm_Sort
  \/ disasm_CheckTable
  \/ Disassemble_Begin
  \/ Pass1_Test
  \/ Pass1_Step
  \/ Pass1_End
  \/ Emit_IO_Registers
  \/ Pass2_Test
  \/ Pass2_Data
  \/ Pass2_Decode
  \/ Disassemble_End

Spec == Init /\ [][Next]_vars

(***************************************************************************)
(* The program is one thread that runs to its end: a step that can be      *)
(* taken is taken.  The options that decide what a line shows do not       *)
(* decide what is run, so the runs to their end are followed with all of   *)
(* them set, under every value of the options that decide what is run.     *)
(***************************************************************************)
FairInit == \E o \in OptionCases : Default_Display(o) /\ Start(o, 0)

FairSpec == FairInit /\ [][Next]_vars /\ WF_vars(Next)

(***************************************************************************)
(* Calls of Match_Opcode and Get_Next_Opcode on chosen arguments, made     *)
(* once disasm has built and sorted the registry.                          *)
(***************************************************************************)
\* The values given to the bits of a word that a pattern leaves open
Fills == {0, 1}

\* Patterns that are handed to Match_Opcode besides the registered ones: one
\* that holds the wildcard character, "1001 010x xxxx 111x", and the pattern
\* of adc written with single spaces, "0001 11rd dddd rrrr"
TestPatterns ==
  {<<"1", "0", "0", "1", " ", "0", "1", "0", "x", " ",
     "x", "x", "x", "x", " ", "1", "1", "1", "x">>,
   <<"0", "0", "0", "1", " ", "1", "1", "r", "d", " ",
     "d", "d", "d", "d", " ", "r", "r", "r", "r">>}

\* Words that are made from no pattern: 0x0000 0x0000, 0xffff 0xffff,
\* 0x940e 0x1234, and 0x1cd1 0x0000 (the stream bytes 0xd1 0x1c, an adc)
ProbeWords ==
  {<<0, 0, 0, 0>>, <<255, 255, 255, 255>>, <<14, 148, 52, 18>>, <<209, 28, 0, 0>>}

\* Lines 193-196: how often a Match_Opcode call that has looked at n positions
\* has shifted a bit into cx->dis_regs[c]
Field_Shifts(Bitmask, n) ==
  LET sig == Significant(Bitmask)
  IN  [c \in Chars |->
         IF c \in {"0", "1"} THEN 0
         ELSE Cardinality({i \in 1..n : sig[i] = c})]

\* The options the registry of these calls is built under
CallOptions ==
  {o \in AllOptions : Default_Display(o) /\ o.Process_Labels
                      /\ o.CodeStyle = "CODESTYLE_AVR_INSTRUCTION_SET"}

\* The bit a word made for a pattern holds at a position with character c
Bit_For(c, f) == IF c = "1" THEN 1 ELSE IF c = "0" THEN 0 ELSE f

\* The same, with the bit at position flip inverted
Word_Bit(sig, i, f, flip) ==
  IF i = flip THEN 1 - Bit_For(sig[i + 1], f) ELSE Bit_For(sig[i + 1], f)

\* The byte made of the positions 8j .. 8j + 7, the first one its highest bit
Word_Byte(sig, j, f, flip) ==
  (128 * Word_Bit(sig, 8 * j, f, flip)) + (64 * Word_Bit(sig, (8 * j) + 1, f, flip))
  + (32 * Word_Bit(sig, (8 * j) + 2, f, flip)) + (16 * Word_Bit(sig, (8 * j) + 3, f, flip))
  + (8 * Word_Bit(sig, (8 * j) + 4, f, flip)) + (4 * Word_Bit(sig, (8 * j) + 5, f, flip))
  + (2 * Word_Bit(sig, (8 * j) + 6, f, flip)) + Word_Bit(sig, (8 * j) + 7, f, flip)

(***************************************************************************)
(* The stream bytes of an instruction written as the pattern says, open    *)
(* bits set to f: each 16-bit word low byte first, so that stream byte     *)
(* k - 1 is the pattern's byte k (k odd) or k - 2 (k even).                *)
(***************************************************************************)
Stream_For(Bitmask, f, flip) ==
  LET sig == Significant(Bitmask)
      n   == Len(sig) \div 8
  IN  SubSeq([k \in 1..n |->
                Word_Byte(sig, IF k % 2 = 1 THEN k ELSE k - 2, f, flip)], 1, n)

\* The same stream followed by a further word when the pattern has 16 bits
Stream4_For(Bitmask, f) ==
  LET s == Stream_For(Bitmask, f, -1)
  IN  IF Len(s) >= 4 THEN s ELSE s \o <<255 * f, 255 * f>>

\* disasm is entered with the options of CallOptions, under any qsort order
InitCalls == \E o \in CallOptions, t \in TieOrders : Start(o, t)

\* Match_Opcode(Bitmask, Bitstream) on a pattern and a word made for it, or another word
Match_Opcode_Call ==
  /\ pc = "Disassemble"
  /\ \E Bitmask \in {At(dis_op, e).Opcode_String : e \in 0..(dis_n_ops - 1)}
                    \cup TestPatterns :
       \E s \in {Stream_For(Bitmask, f, flip)
                   : f \in Fills, flip \in -1..(Get_Bitmask_Length(Bitmask) - 1)}
                \cup ProbeWords :
         \E m \in {Match_Opcode(Bitmask, s, 0)} :
           /\ Bitstream' = s
           /\ Read' = Len(s)
           /\ dis_regs' = m.dis_regs
           /\ iter' = [loop |-> "Match_Opcode", Bitmask |-> Bitmask, ret |-> m.ret,
                       reads |-> Stream_Reads(0, m.bits),
                       shifts |-> Field_Shifts(Bitmask, m.bits)]
  /\ Pos' = 0
  /\ pc' = "called"
  /\ UNCHANGED <<ret, dis_opts, qsort_order, dis_op, dis_n_ops, dis_code,
                 dis_comment, dis_after_code, Opcode, stdout, stderr, n_enumerate,
                 n_emit_io, pass1_calls>>

\* Get_Next_Opcode(Bitstream) on a word made for the entry seed, or on another word
Get_Next_Opcode_Call ==
  /\ pc = "Disassemble"
  /\ \E c \in {[seed |-> e, s |-> Stream4_For(At(dis_op, e).Opcode_String, f)]
                 : e \in 0..(dis_n_ops - 1), f \in Fills}
              \cup {[seed |-> -1, s |-> w] : w \in ProbeWords} :
       \E r \in {Get_Next_Opcode(dis_op, dis_n_ops, dis_regs, c.s, 0)} :
         /\ Bitstream' = c.s
         /\ Read' = Len(c.s)
         /\ Opcode' = r.Opcode
         /\ dis_regs' = r.dis_regs
         /\ iter' = [loop |-> "Get_Next_Opcode", seed |-> c.seed, tried |-> r.tried,
                     reads |-> r.reads]
  /\ Pos' = 0
  /\ pc' = "called"
  /\ UNCHANGED <<ret, dis_opts, qsort_order, dis_op, dis_n_ops, dis_code,
                 dis_comment, dis_after_code, stdout, stderr, n_enumerate,
                 n_emit_io, pass1_calls>>

\* A mnemonic of avr_opcodes[] that disasm registers no entry for (line 359)
Unregistered == {"OPCODE_des"}

\* Supersede_Opcode(Callback, mnemo) on the registry disasm has built, for the
\* mnemonic of an entry or for one that has no entry
Supersede_Opcode_Call ==
  /\ pc = "Disassemble"
  /\ \E mnemo \in {At(dis_op, e).mnemo : e \in 0..(dis_n_ops - 1)} \cup Unregistered :
       \E s \in {Supersede_Opcode(dis_op, "probe_Callback", mnemo)} :
         /\ dis_op' = s.dis_op
         /\ stderr' = IF s.error
                      THEN stderr \cup {<<"no callback to supersede", mnemo>>}
                      ELSE stderr
         /\ iter' = [loop |-> "Supersede_Opcode", Callback |-> "probe_Callback",
                     mnemo |-> mnemo, error |-> s.error]
  /\ pc' = "called"
  /\ UNCHANGED <<ret, dis_opts, qsort_order, dis_n_ops, dis_regs, dis_code,
                 dis_comment, dis_after_code, Bitstream, Read, Pos, Opcode, stdout,
                 n_enumerate, n_emit_io, pass1_calls>>

NextCalls ==
  \/ disasm_ReadTagfile
  \/ disasm_Register
  \/ disasm_Supersede
  \/ disasm_Sort
  \/ disasm_CheckTable
  \/ Match_Opcode_Call
  \/ Get_Next_Opcode_Call
  \/ Supersede_Opcode_Call

CallSpec == InitCalls /\ [][NextCalls]_vars

(***************************************************************************)
(* Properties of the matcher, the resolver and the sorted registry.        *)
(***************************************************************************)
\* The stream bit that position i of a pattern stands for: byte (i / 8) XOR 1
\* of the stream, bit 7 - i % 8 of that byte
Stream_Bit_At(s, i) ==
  LET byte == IF (i \div 8) % 2 = 0 THEN (i \div 8) + 1 ELSE (i \div 8) - 1
  IN  (s[byte + 1] \div (2 ^ (7 - (i % 8)))) % 2

\* Every '0' and '1' of the pattern equals the stream bit it stands for
Literals_Agree(Bitmask, s) ==
  LET sig == Significant(Bitmask)
  IN  \A i \in 0..(Len(sig) - 1) :
        /\ (sig[i + 1] = "0" => Stream_Bit_At(s, i) = 0)
        /\ (sig[i + 1] = "1" => Stream_Bit_At(s, i) = 1)

\* The entries of the registry whose literal bits agree with the stream
Matching(op, s) ==
  {e \in 0..(Len(op) - 1) : Literals_Agree(At(op, e).Opcode_String, s)}

\* An entry's count of '0' and '1' characters
Specificity_Of(op, e) == Get_Specifity(At(op, e).Opcode_String)

\* The pattern of an entry holds no field character
All_Literal(op, e) ==
  Get_Specifity(At(op, e).Opcode_String) = Get_Bitmask_Length(At(op, e).Opcode_String)

\* The place of an entry among the Register_Opcode calls of disasm
Registered_At(entry) ==
  CHOOSE k \in 1..Len(OpcodeTable) : OpcodeTable[k].mnemo = entry.mnemo

(***************************************************************************)
(* C1: Match_Opcode returns true if and only if every literal (0/1) bit of *)
(* the pattern equals the stream bit it maps to (position i -> stream byte *)
(* (i/8) XOR 1, bit 7 - i%8); the stream bits under wildcard and field     *)
(* positions never change the result.                                      *)
(***************************************************************************)
C1_Match_Iff_Literals_Agree ==
  iter.loop = "Match_Opcode"
    => (iter.ret = 1 <=> Literals_Agree(iter.Bitmask, Bitstream))

\* A pattern with wildcards has matched a word whose wildcard bits are set
C1_Witness ==
  /\ iter.loop = "Match_Opcode"
  /\ iter.ret = 1
  /\ \E i \in 1..Len(iter.Bitmask) : iter.Bitmask[i] = "x"
  /\ dis_regs["x"] > 0

(***************************************************************************)
(* C2: Get_Next_Opcode returns the index of the first entry, in the        *)
(* registry's sorted order, whose pattern matches the bytes, and -1        *)
(* exactly when no pattern matches; when an all-literal entry and a less   *)
(* specific one both match, the all-literal one is returned.               *)
(***************************************************************************)
C2_First_Match_In_Sorted_Order ==
  iter.loop = "Get_Next_Opcode"
    => \E M \in {Matching(dis_op, Bitstream)} :
         /\ (Opcode = -1 <=> M = {})
         /\ (M # {} => Opcode \in M /\ \A e \in M : Opcode <= e)
         /\ ((\E e \in M : All_Literal(dis_op, e)) => All_Literal(dis_op, Opcode))

\* An all-literal entry was returned for bytes that an entry with fields matches too
C2_Witness ==
  /\ iter.loop = "Get_Next_Opcode"
  /\ Opcode # -1
  /\ All_Literal(dis_op, Opcode)
  /\ \E e \in Matching(dis_op, Bitstream) : ~All_Literal(dis_op, e)

(***************************************************************************)
(* C3 as stated: resolving bytes that agree with the literal bits of a     *)
(* registered entry E returns E, provided no entry of strictly higher      *)
(* specificity matches the same bytes.                                     *)
(***************************************************************************)
C3_Round_Trip_Unless_Higher ==
  (iter.loop = "Get_Next_Opcode" /\ iter.seed # -1)
    => \E M \in {Matching(dis_op, Bitstream)} :
         (\A e \in M : Specificity_Of(dis_op, e) <= Specificity_Of(dis_op, iter.seed))
           => Opcode = iter.seed

(***************************************************************************)
(* C3 amended: resolving bytes that agree with the literal bits of a       *)
(* registered entry E returns E, provided no other entry of equal or       *)
(* higher specificity matches the same bytes.                              *)
(***************************************************************************)
C3_Round_Trip_Unless_Equal_Or_Higher ==
  (iter.loop = "Get_Next_Opcode" /\ iter.seed # -1)
    => \E M \in {Matching(dis_op, Bitstream)} :
         (\A e \in M \ {iter.seed} :
            Specificity_Of(dis_op, e) < Specificity_Of(dis_op, iter.seed))
           => Opcode = iter.seed

\* An entry with fields was returned for its own bytes, which a less specific
\* entry matches too, the open bits of the word being set
C3_Witness ==
  /\ iter.loop = "Get_Next_Opcode"
  /\ iter.seed # -1
  /\ Opcode = iter.seed
  /\ ~All_Literal(dis_op, iter.seed)
  /\ dis_regs # Clear_Registers
  /\ \E M \in {Matching(dis_op, Bitstream)} :
       /\ M # {iter.seed}
       /\ \A e \in M \ {iter.seed} :
            Specificity_Of(dis_op, e) < Specificity_Of(dis_op, iter.seed)

(***************************************************************************)
(* C4: once disasm has registered, superseded and sorted the registry, the *)
(* entries are in non-increasing order of specificity (the count of '0'    *)
(* and '1' characters), so every all-literal pattern stands before every   *)
(* pattern that holds a field character.                                   *)
(***************************************************************************)
C4_Sorted_By_Specificity ==
  pc \in {"check", "Disassemble"}
    => /\ \A e \in 0..(dis_n_ops - 2) :
            Specificity_Of(dis_op, e) >= Specificity_Of(dis_op, e + 1)
       /\ \E L \in {{e \in 0..(dis_n_ops - 1) : All_Literal(dis_op, e)}} :
            \A e \in L, g \in (0..(dis_n_ops - 1)) \ L : e < g

\* The sort has run on the full registry of a pseudocode run and has moved entries
C4_Witness ==
  /\ pc = "check"
  /\ dis_opts.Show_PseudoCode
  /\ dis_n_ops = Len(OpcodeTable)
  /\ All_Literal(dis_op, 0)
  /\ ~All_Literal(dis_op, dis_n_ops - 1)
  /\ At(dis_op, 0).mnemo # OpcodeTable[1].mnemo

(***************************************************************************)
(* C5: the sort keeps entries of equal specificity in registration order,  *)
(* and so, of entries of equal specificity that match the same bytes, the  *)
(* resolver returns the one registered first.                              *)
(***************************************************************************)
C5_Ties_In_Registration_Order ==
  /\ pc = "check"
       => \E sp \in {SubSeq([k \in 1..dis_n_ops |-> Get_Specifity(dis_op[k].Opcode_String)],
                            1, dis_n_ops)} :
            \A i, j \in 1..dis_n_ops :
              (i < j /\ sp[i] = sp[j])
                => Registered_At(dis_op[i]) < Registered_At(dis_op[j])
  /\ (iter.loop = "Get_Next_Opcode" /\ Opcode # -1)
       => \A e \in Matching(dis_op, Bitstream) :
            Specificity_Of(dis_op, e) = Specificity_Of(dis_op, Opcode)
              => Registered_At(At(dis_op, Opcode)) <= Registered_At(At(dis_op, e))

\* The resolver has returned the later registered of two entries of equal
\* specificity that match the same bytes
C5_Witness ==
  /\ iter.loop = "Get_Next_Opcode"
  /\ Opcode # -1
  /\ \E e \in Matching(dis_op, Bitstream) :
       /\ Specificity_Of(dis_op, e) = Specificity_Of(dis_op, Opcode)
       /\ Registered_At(At(dis_op, e)) < Registered_At(At(dis_op, Opcode))

(***************************************************************************)
(* Properties of the driver.                                               *)
(***************************************************************************)
\* Disassemble has been entered and has not returned
In_Disassemble ==
  pc \in {"pass1", "pass1_body", "emit_io", "pass2", "pass2_body"}

\* A step from the body of either loop ends the iteration with a greater cursor
Body_Advances ==
  pc \in {"pass1_body", "pass2_body"} => (pc' \in {"pass1", "pass2"} /\ Pos' > Pos)

(***************************************************************************)
(* C6: for every buffer and content the cursor strictly increases on each  *)
(* iteration of the first and of the second loop, no iteration ends the    *)
(* run, and Disassemble returns, with the cursor at or past the buffer     *)
(* length.                                                                 *)
(***************************************************************************)
C6_Cursor_Increases_And_Returns ==
  /\ [][Body_Advances]_vars
  /\ (In_Disassemble ~> (pc = "returned" /\ ret = "0" /\ Pos >= Read))

\* Both loops have run over a full buffer of bytes no entry recognises
C6_Witness ==
  /\ pc = "returned"
  /\ ret = "0"
  /\ Read = MaxRead
  /\ Bitstream[1] = 255
  /\ n_enumerate = 1
  /\ Pos >= Read

(***************************************************************************)
(* C7: in both loops the matcher and the driver read only stream bytes at  *)
(* indices below the buffer length, and a position with fewer bytes left   *)
(* than a candidate instruction needs is handled by the 2-byte skip, no    *)
(* handler being called for an instruction that ends past the buffer.      *)
(***************************************************************************)
C7_Reads_Inside_Buffer ==
  iter.loop \in {"pass1", "pass2"}
    => /\ iter.reads \subseteq 0..(Read - 1)
       /\ (iter.calls # <<>> => Pos <= Read)

\* A handler was called for an instruction whose second word lies past the buffer
C7_Witness ==
  /\ iter.loop \in {"pass1", "pass2"}
  /\ iter.calls # <<>>
  /\ Pos > Read
  /\ \E k \in iter.reads : k >= Read

(***************************************************************************)
(* C8: when no entry matches at the current position the cursor advances   *)
(* by exactly 2 bytes and no render-handler is called; the second loop     *)
(* prints exactly one invalid-opcode line for the position, the first loop *)
(* prints nothing.                                                         *)
(***************************************************************************)
C8_No_Match_Skips_Two_Bytes ==
  (iter.loop \in {"pass1", "pass2"} /\ iter.Added = 0 /\ Opcode = -1)
    => /\ iter.tried = dis_n_ops
       /\ Pos = iter.from + 2
       /\ iter.calls = <<>>
       /\ (iter.loop = "pass2"
             => stdout = <<<<"invalid opcode", iter.from + 1, iter.from>>>>)
       /\ (iter.loop = "pass1" => stdout = <<>>)

\* The second loop has met a word no entry matches, after the first loop ran
C8_Witness ==
  /\ iter.loop = "pass2"
  /\ iter.Added = 0
  /\ Opcode = -1
  /\ iter.tried = Len(OpcodeTable)
  /\ n_enumerate = 1
  /\ Len(stdout) = 1
  /\ Pos = iter.from + 2

\* A step of the second loop in which data was added moves the cursor and no more
Data_Only_Skips ==
  (pc = "pass2_body" /\ iter'.Added # 0)
    => /\ Pos' = Pos + iter'.Added
       /\ iter'.tried = 0
       /\ iter'.calls = <<>>
       /\ iter'.reads = {}
       /\ stdout' = <<>>
       /\ UNCHANGED <<Opcode, dis_regs, dis_code, dis_comment, dis_after_code,
                      dis_op, dis_opts>>

(***************************************************************************)
(* C9: in the second loop, when Tagfile_Process_Data reports n # 0 bytes   *)
(* at the current position, the cursor advances by exactly n; no match is  *)
(* attempted, no render-handler is called and the driver prints nothing.   *)
(***************************************************************************)
C9_Data_Skips_Without_Match == [][Data_Only_Skips]_vars

\* Two bytes of data were skipped in the middle of a buffer
C9_Witness ==
  /\ iter.loop = "pass2"
  /\ iter.Added = 2
  /\ iter.from > 0
  /\ Pos = iter.from + 2
  /\ Pos < Read

(***************************************************************************)
(* C10: the first loop is executed if and only if label processing is      *)
(* enabled, or pseudocode is disabled and the code style is AVRGCC; under  *)
(* every other option value no handler is called by the first loop.        *)
(***************************************************************************)
C10_Pass1_Iff_Wanted ==
  \E wanted \in {dis_opts.Process_Labels
                 \/ (~dis_opts.Show_PseudoCode
                     /\ dis_opts.CodeStyle = "CODESTYLE_AVRGCC")} :
    /\ (pc \in {"pass1", "pass1_body"} => wanted)
    /\ (pc \in {"emit_io", "pass2", "pass2_body"} => (n_enumerate = 1 <=> wanted))
    /\ (~wanted => (pass1_calls = {} /\ n_enumerate = 0 /\ iter.loop # "pass1"))

\* The first loop has called a handler though label processing is disabled
C10_Witness ==
  /\ pc = "pass2"
  /\ ~dis_opts.Process_Labels
  /\ ~dis_opts.Show_PseudoCode
  /\ dis_opts.CodeStyle = "CODESTYLE_AVRGCC"
  /\ n_enumerate = 1
  /\ pass1_calls # {}

(***************************************************************************)
(* Properties of the two loops and of the registry they run on.            *)
(***************************************************************************)
\* The options under which the first loop is to run
First_Loop_Due ==
  dis_opts.Process_Labels
  \/ (~dis_opts.Show_PseudoCode /\ dis_opts.CodeStyle = "CODESTYLE_AVRGCC")

\* Disassemble has been entered
Disassemble_Entered == dis_opts.Pass # 0

\* The number of Enumerate_Labels calls that fits the statement Disassemble is at
Enumerated_In_Place ==
  /\ n_enumerate <= 1
  /\ (~First_Loop_Due => n_enumerate = 0)
  /\ (pc \in {"pass1", "pass1_body"} => n_enumerate = 0)
  /\ ((Disassemble_Entered /\ pc \in {"emit_io", "pass2", "pass2_body", "returned"})
        => n_enumerate = IF First_Loop_Due THEN 1 ELSE 0)
  /\ (iter.loop = "pass2" => n_enumerate = IF First_Loop_Due THEN 1 ELSE 0)

\* The call is made by the step that ends the first loop, and no step of the
\* first loop follows it
Enumerate_Step ==
  /\ (n_enumerate' # n_enumerate
        => /\ pc = "pass1"
           /\ dis_opts.Pass = 1
           /\ n_enumerate' = 1
           /\ Pos' = 0
           /\ dis_opts'.Pass = 2
           /\ stdout' = <<>>
           /\ pass1_calls' = pass1_calls)
  /\ (n_enumerate >= 1
        => /\ pass1_calls' = pass1_calls
           /\ n_enumerate' = n_enumerate
           /\ iter'.loop # "pass1")

(***************************************************************************)
(* C11: when the first loop runs, Enumerate_Labels is called exactly once, *)
(* after the last handler call of the first loop and before the first      *)
(* action of the second loop; the cursor is then 0 and the pass number 2.  *)
(* When the first loop does not run, Enumerate_Labels is never called.     *)
(***************************************************************************)
C11_Enumerate_Once_Between_Loops ==
  /\ []Enumerated_In_Place
  /\ [][Enumerate_Step]_vars

\* The second loop begins after a first loop that has called handlers
C11_Witness ==
  /\ pc = "pass2_body"
  /\ Pos = 0
  /\ dis_opts.Pass = 2
  /\ n_enumerate = 1
  /\ pass1_calls # {}

\* The number of characters of a pattern that are not a space
Significant_Bits(Bitmask) ==
  Cardinality({i \in 1..Len(Bitmask) : Bitmask[i] # " "})

\* The mnemonics of the instructions that take a second word
Long_Forms == {"OPCODE_call", "OPCODE_jmp", "OPCODE_lds", "OPCODE_sts"}

\* The last iteration of either loop has matched an entry and called its handler
Matched_Iteration == iter.loop \in {"pass1", "pass2"} /\ iter.calls # <<>>

(***************************************************************************)
(* C12 as stated: on a match, in either loop, the cursor advances by the   *)
(* pattern's count of non-space characters divided by 8: 2 bytes for a     *)
(* 16-bit instruction and 6 bytes for a long form.                         *)
(***************************************************************************)
C12_Advance_Two_Or_Six ==
  Matched_Iteration
    => \E n \in {Significant_Bits(At(dis_op, Opcode).Opcode_String)} :
         /\ Pos = iter.from + (n \div 8)
         /\ Pos - iter.from = IF At(dis_op, Opcode).mnemo \in Long_Forms THEN 6 ELSE 2

(***************************************************************************)
(* C12 amended: on a match, in either loop, the cursor advances by the     *)
(* pattern's count of non-space characters divided by 8: 2 bytes for a     *)
(* 16-bit instruction and 4 bytes for a long form.                         *)
(***************************************************************************)
C12_Advance_Two_Or_Four ==
  Matched_Iteration
    => \E n \in {Significant_Bits(At(dis_op, Opcode).Opcode_String)} :
         /\ Pos = iter.from + (n \div 8)
         /\ Pos - iter.from = IF At(dis_op, Opcode).mnemo \in Long_Forms THEN 4 ELSE 2

\* The second loop has matched a call that lies inside the buffer, after the
\* first loop has matched instructions too
C12_Witness ==
  /\ iter.loop = "pass2"
  /\ iter.calls # <<>>
  /\ At(dis_op, Opcode).mnemo = "OPCODE_call"
  /\ Pos = iter.from + 4
  /\ Pos <= Read
  /\ pass1_calls # {}

(***************************************************************************)
(* C13 as stated: every pattern of the registry built by disasm has a      *)
(* count of non-space characters that is a multiple of 8 and is 16 or 48;  *)
(* the patterns of call, jmp, lds and sts are the ones of 48.              *)
(***************************************************************************)
C13_Lengths_16_Or_48 ==
  \A e \in 0..(dis_n_ops - 1) :
    \E n \in {Significant_Bits(At(dis_op, e).Opcode_String)} :
      /\ n % 8 = 0
      /\ n \in {16, 48}
      /\ (n = 48 <=> At(dis_op, e).mnemo \in Long_Forms)

(***************************************************************************)
(* C13 amended: every pattern of the registry built by disasm has a count  *)
(* of non-space characters that is a multiple of 8 and is 16 or 32; the    *)
(* patterns of call, jmp, lds and sts are the ones of 32.                  *)
(***************************************************************************)
C13_Lengths_16_Or_32 ==
  \A e \in 0..(dis_n_ops - 1) :
    \E n \in {Significant_Bits(At(dis_op, e).Opcode_String)} :
      /\ n % 8 = 0
      /\ n \in {16, 32}
      /\ (n = 32 <=> At(dis_op, e).mnemo \in Long_Forms)

\* The full registry has been built and sorted; it holds all four long forms
C13_Witness ==
  /\ pc = "Disassemble"
  /\ dis_n_ops = Len(OpcodeTable)
  /\ Len(dis_op) = dis_n_ops
  /\ Long_Forms \subseteq {At(dis_op, e).mnemo : e \in 0..(dis_n_ops - 1)}
  /\ \E e \in 0..(dis_n_ops - 1) : Significant_Bits(At(dis_op, e).Opcode_String) = 16

\* The sum, over the positions P of a pattern, of the stream bit each stands
\* for, a position counting 2 ^ (the number of positions of P to its right)
RECURSIVE Weighted_Bits(_, _, _)
Weighted_Bits(s, P, Q) ==
  IF Q = {} THEN 0
  ELSE LET i == CHOOSE q \in Q : TRUE
       IN  (Stream_Bit_At(s, i) * (2 ^ Cardinality({j \in P : j > i})))
           + Weighted_Bits(s, P, Q \ {i})

\* The number the stream bits at the positions of character c form, the
\* leftmost position the most significant
Field_Value(Bitmask, s, c) ==
  LET sig == Significant(Bitmask)
      P   == {i \in 0..(Len(sig) - 1) : sig[i + 1] = c}
  IN  Weighted_Bits(s, P, P)

\* cx->dis_regs holds, for every character, the value the pattern and the
\* stream give it
Fields_Of(Bitmask, s) ==
  \A c \in Chars :
    dis_regs[c] = IF c \in {"0", "1", " "} THEN 0 ELSE Field_Value(Bitmask, s, c)

(***************************************************************************)
(* C14: after a successful Match_Opcode, called directly or by the         *)
(* resolver, cx->dis_regs[c] is for every field character c the number     *)
(* formed by the stream bits at the pattern positions that hold c, in      *)
(* pattern order, the first the most significant; a character that does    *)
(* not occur in the pattern has the value 0.                               *)
(***************************************************************************)
C14_Fields_In_Pattern_Order ==
  /\ (iter.loop = "Match_Opcode" /\ iter.ret = 1)
       => Fields_Of(iter.Bitmask, Bitstream)
  /\ (iter.loop = "Get_Next_Opcode" /\ Opcode # -1)
       => Fields_Of(At(dis_op, Opcode).Opcode_String, Bitstream)

\* The pattern "0001 11rd dddd rrrr" has matched a word whose first r bit is
\* the only field bit set
C14_Witness ==
  /\ iter.loop = "Match_Opcode"
  /\ iter.ret = 1
  /\ iter.Bitmask = OpcodeTable[1].Opcode_String
  /\ dis_regs["r"] = 16
  /\ dis_regs["d"] = 0
  /\ dis_regs["K"] = 0

\* The pattern of the scenario, "0001 11rd dddd rrrr", spaces aside
Adc_Pattern ==
  <<"0", "0", "0", "1", "1", "1", "r", "d", "d", "d", "d", "d", "r", "r", "r", "r">>

\* Match_Opcode was called with that pattern on the stream bytes 0b11010001, 0b00011100
Adc_Scenario ==
  /\ iter.loop = "Match_Opcode"
  /\ Significant(iter.Bitmask) = Adc_Pattern
  /\ SubSeq(Bitstream, 1, 2) = <<209, 28>>

(***************************************************************************)
(* C15 as stated: the pattern "0001 11rd dddd rrrr" matches the stream     *)
(* bytes 0b11010001, 0b00011100, and the match has shifted 5 bits into     *)
(* field d and 4 bits into field r, in pattern order.                      *)
(***************************************************************************)
C15_Adc_Five_And_Four_Bits ==
  Adc_Scenario
    => /\ iter.ret = 1
       /\ iter.shifts["d"] = 5
       /\ iter.shifts["r"] = 4
       /\ dis_regs["d"] = 13
       /\ dis_regs["r"] = 1

(***************************************************************************)
(* C15 amended: the pattern "0001 11rd dddd rrrr" matches the stream bytes *)
(* 0b11010001, 0b00011100, and the match has shifted 5 bits into field d   *)
(* and 5 bits into field r, in pattern order (d = 0b01101, r = 0b00001).   *)
(***************************************************************************)
C15_Adc_Five_And_Five_Bits ==
  Adc_Scenario
    => /\ iter.ret = 1
       /\ iter.shifts["d"] = 5
       /\ iter.shifts["r"] = 5
       /\ dis_regs["d"] = 13
       /\ dis_regs["r"] = 1

\* The call of the scenario has been made, with the pattern as the scenario writes it
C15_Witness ==
  /\ Adc_Scenario
  /\ Len(iter.Bitmask) = 19
  /\ iter.ret = 1
  /\ dis_regs["d"] = 13

\* The characters of a pattern that are not '0', '1', 'x' or a space
Field_Chars(Bitmask) ==
  {Bitmask[k] : k \in 1..Len(Bitmask)} \ {"0", "1", "x", " "}

(***************************************************************************)
(* C16 as stated: when Match_Opcode meets a pattern character that is not  *)
(* '0', '1', 'x' or a space it reports the pattern as invalid and returns  *)
(* non-match for that entry, whatever the stream bits are, and the         *)
(* resolver goes on with the next entry.                                   *)
(***************************************************************************)
C16_Other_Character_Is_No_Match ==
  /\ (iter.loop = "Match_Opcode" /\ Field_Chars(iter.Bitmask) # {})
       => (iter.ret = 0 /\ stderr # {})
  /\ (iter.loop = "Get_Next_Opcode" /\ Opcode # -1)
       => Field_Chars(At(dis_op, Opcode).Opcode_String) = {}

(***************************************************************************)
(* C16 amended: when Match_Opcode meets a pattern character that is not    *)
(* '0', '1' or a space it takes it as a field character: nothing is        *)
(* reported, the stream bit of every such position is shifted into the     *)
(* character's scratch value, and the entry matches exactly when its '0'   *)
(* and '1' characters agree with the stream; the resolver returns such an  *)
(* entry when it is the first that matches.                                *)
(***************************************************************************)
C16_Other_Character_Is_A_Field ==
  /\ (iter.loop = "Match_Opcode" /\ Field_Chars(iter.Bitmask) # {})
       => /\ stderr = {}
          /\ (iter.ret = 1 <=> Literals_Agree(iter.Bitmask, Bitstream))
          /\ (iter.ret = 1
                => \A c \in Field_Chars(iter.Bitmask) :
                     iter.shifts[c]
                       = Cardinality({k \in 1..Len(iter.Bitmask) : iter.Bitmask[k] = c}))
  /\ (iter.loop = "Get_Next_Opcode" /\ Opcode # -1)
       => /\ stderr = {}
          /\ \A e \in 0..(Opcode - 1) :
               ~Literals_Agree(At(dis_op, e).Opcode_String, Bitstream)
          /\ Literals_Agree(At(dis_op, Opcode).Opcode_String, Bitstream)

\* The resolver has passed entries and returned one whose pattern holds field
\* characters, with bits of the word in its scratch values
C16_Witness ==
  /\ iter.loop = "Get_Next_Opcode"
  /\ Opcode > 0
  /\ iter.tried = Opcode + 1
  /\ Field_Chars(At(dis_op, Opcode).Opcode_String) # {}
  /\ \E c \in Field_Chars(At(dis_op, Opcode).Opcode_String) : dis_regs[c] > 0
  /\ stderr = {}

\* A step that is a Supersede_Opcode call changes the handler of the entry
\* for the mnemonic and nothing else, or reports that there is no such entry
Supersede_Frame ==
  (pc = "Disassemble" /\ iter'.loop = "Supersede_Opcode")
    => \E hit \in {{e \in 1..Len(dis_op) : dis_op[e].mnemo = iter'.mnemo}} :
         /\ Len(dis_op') = Len(dis_op)
         /\ dis_n_ops' = dis_n_ops
         /\ pc' # "returned"
         /\ ret' = "none"
         /\ IF hit # {}
            THEN /\ \A e \in hit :
                      /\ dis_op'[e].Callback = iter'.Callback
                      /\ dis_op'[e].Opcode_String = dis_op[e].Opcode_String
                      /\ dis_op'[e].mnemo = dis_op[e].mnemo
                 /\ \A g \in (1..Len(dis_op)) \ hit : dis_op'[g] = dis_op[g]
                 /\ stderr' = stderr
            ELSE /\ dis_op' = dis_op
                 /\ stderr' # stderr

(***************************************************************************)
(* C17: Supersede_Opcode(handler, m) on a registry that holds an entry for *)
(* m changes that entry's handler and nothing else: its pattern and        *)
(* mnemonic, the entry count and every other entry stay; when there is no  *)
(* entry for m it reports an error, leaves the registry unchanged and the  *)
(* run goes on.                                                            *)
(***************************************************************************)
C17_Supersede_Changes_One_Handler == [][Supersede_Frame]_vars

\* The handler of the first entry of the sorted registry has been replaced
C17_Witness ==
  /\ iter.loop = "Supersede_Opcode"
  /\ ~iter.error
  /\ At(dis_op, 0).mnemo = iter.mnemo
  /\ At(dis_op, 0).Callback = "probe_Callback"
  /\ At(dis_op, 1).Callback # "probe_Callback"
  /\ stderr = {}

\* The handler each Register_Opcode call of disasm gives its mnemonic
Assembly_Handler ==
  [m \in {OpcodeTable[k].mnemo : k \in 1..Len(OpcodeTable)} |->
     OpcodeTable[CHOOSE k \in 1..Len(OpcodeTable) : OpcodeTable[k].mnemo = m].Callback]

\* The mnemonics of the Supersede_Opcode calls, and the handlers they give
Superseded == {SupersedeTable[k].mnemo : k \in 1..Len(SupersedeTable)}

Pseudocode_Handlers == {SupersedeTable[k].Callback : k \in 1..Len(SupersedeTable)}

\* disasm is past its Supersede_Opcode calls
Handlers_Selected == pc \notin {"disasm", "register", "supersede"}

\* Every entry carries the handler that the options select for its mnemonic
Handlers_As_Selected ==
  Handlers_Selected
    => \A e \in 1..Len(dis_op) :
         /\ (dis_op[e].Callback \in Pseudocode_Handlers
               <=> (dis_opts.Show_PseudoCode /\ dis_op[e].mnemo \in Superseded))
         /\ (dis_op[e].Callback \notin Pseudocode_Handlers
               => dis_op[e].Callback = Assembly_Handler[dis_op[e].mnemo])
         /\ (dis_op[e].Callback \in Pseudocode_Handlers
               => \E k \in 1..Len(SupersedeTable) :
                    /\ SupersedeTable[k].mnemo = dis_op[e].mnemo
                    /\ SupersedeTable[k].Callback = dis_op[e].Callback)

\* The sort moves entries and changes none; the two loops leave the registry alone
Handlers_Kept ==
  /\ (pc = "qsort" => {dis_op'[e] : e \in 1..Len(dis_op')} = {dis_op[e] : e \in 1..Len(dis_op)})
  /\ ((Handlers_Selected /\ pc # "qsort") => dis_op' = dis_op)

(***************************************************************************)
(* C18: the handlers are selected before the sort and stay for the rest of *)
(* the run: during both loops no entry's handler, pattern or mnemonic      *)
(* changes; in a pseudocode run an entry carries a pseudocode handler      *)
(* exactly when its mnemonic is one of the Supersede_Opcode calls and      *)
(* otherwise its assembly handler; in a run without pseudocode every entry *)
(* carries its assembly handler.                                           *)
(***************************************************************************)
C18_Handlers_Fixed_Before_Sort ==
  /\ []Handlers_As_Selected
  /\ [][Handlers_Kept]_vars

\* The second loop of a pseudocode run works on a registry in which some
\* entries carry a pseudocode handler and others their assembly handler
C18_Witness ==
  /\ pc = "pass2_body"
  /\ dis_opts.Show_PseudoCode
  /\ pass1_calls # {}
  /\ \E e \in 1..Len(dis_op) : dis_op[e].Callback \in Pseudocode_Handlers
  /\ \E e \in 1..Len(dis_op) :
       /\ dis_op[e].mnemo \notin Superseded
       /\ dis_op[e].Callback = Assembly_Handler[dis_op[e].mnemo]

\* The place of each kind of output in the line of a matched instruction
Emission_Rank(line) ==
  CASE line[1] = "Print_JumpCalls" -> 1
    [] line[1] = "address" -> 2
    [] line[1] = "cycles" -> 3
    [] line[1] = "byte" -> 4
    [] line[1] = "space" -> 5
    [] line[1] = "pad" -> 6
    [] line[1] \in {"code", "code ; comment", "not implemented"} -> 7
    [] line[1] = "after_code" -> 8
    [] OTHER -> 0

\* The number of outputs of a kind among those of the last statement
Emitted(kind) == Cardinality({k \in 1..Len(stdout) : stdout[k][1] = kind})

\* The second loop has matched an entry at iter.from and printed its line
Matched_In_Pass2 == iter.loop = "pass2" /\ iter.calls # <<>>

(***************************************************************************)
(* C19: for each matched position of the second loop the driver's outputs  *)
(* come in this order, each present only when its flag is set: jump/call   *)
(* labels, address, cycle tag, the instruction's bytes padded to five      *)
(* columns; then the code text (followed by the comment only when both are *)
(* non-empty and comments are shown; a note in its place when the handler  *)
(* has left no code), then the after-code text; they are made for the      *)
(* position the cursor has before it advances.                             *)
(***************************************************************************)
C19_Emissions_In_Order ==
  Matched_In_Pass2
    => /\ \A k \in 1..Len(stdout) : Emission_Rank(stdout[k]) # 0
       /\ \A k \in 1..(Len(stdout) - 1) :
            \/ Emission_Rank(stdout[k]) < Emission_Rank(stdout[k + 1])
            \/ /\ stdout[k][1] = stdout[k + 1][1]
               /\ stdout[k][1] \in {"byte", "pad"}
       /\ Emitted("Print_JumpCalls") = (IF dis_opts.Process_Labels THEN 1 ELSE 0)
       /\ Emitted("address") = (IF dis_opts.Show_Addresses THEN 1 ELSE 0)
       /\ Emitted("cycles") = (IF dis_opts.Show_Cycles THEN 1 ELSE 0)
       /\ Emitted("byte") = (IF dis_opts.Show_Opcodes THEN Pos - iter.from ELSE 0)
       /\ Emitted("space") = (IF dis_opts.Show_Opcodes THEN 1 ELSE 0)
       /\ Emitted("byte") + Emitted("pad") = (IF dis_opts.Show_Opcodes THEN 5 ELSE 0)
       /\ Emitted("code ; comment")
            = (IF dis_code # "" /\ dis_comment # "" /\ dis_opts.Show_Comments
               THEN 1 ELSE 0)
       /\ Emitted("code")
            = (IF dis_code # "" /\ ~(dis_comment # "" /\ dis_opts.Show_Comments)
               THEN 1 ELSE 0)
       /\ Emitted("not implemented") = (IF dis_code = "" THEN 1 ELSE 0)
       /\ stdout[Len(stdout)] = <<"after_code", dis_after_code>>
       /\ \A k \in 1..Len(stdout) :
            /\ (stdout[k][1] \in {"Print_JumpCalls", "address"} => stdout[k][2] = iter.from)
            /\ (stdout[k][1] = "byte" => stdout[k][2] \in iter.from..(Pos - 1))
            /\ (stdout[k][1] = "code" => stdout[k][2] = dis_code)
            /\ (stdout[k][1] = "code ; comment"
                  => (stdout[k][3] = dis_code /\ stdout[k][4] = dis_comment))
       /\ Pos > iter.from

\* A line with every kind of output was printed for a call, with code and comment
C19_Witness ==
  /\ Matched_In_Pass2
  /\ Emitted("Print_JumpCalls") = 1
  /\ Emitted("address") = 1
  /\ Emitted("cycles") = 1
  /\ Emitted("byte") = 4
  /\ Emitted("pad") = 1
  /\ Emitted("code ; comment") = 1
  /\ Len(stdout) = 11

\* The check of avr_opcodes[] has failed
Table_Broken == <<"avr_opcodes[] table broken">> \in stderr

\* Nothing of Disassemble has run: no step of either loop, no handler call, no output
Nothing_Decoded ==
  /\ ~Disassemble_Entered
  /\ iter = NoIter
  /\ pass1_calls = {}
  /\ n_enumerate = 0
  /\ n_emit_io = 0
  /\ stdout = <<>>
  /\ Pos = 0
  /\ Opcode = -1

(***************************************************************************)
(* C20 as stated: when the check of the opcode table fails, disasm returns *)
(* an error before decoding starts (no step of either loop, no handler     *)
(* call, no output); and this check is the only condition under which      *)
(* disasm ends without running Disassemble.                                *)
(***************************************************************************)
C20_Only_Table_Check_Ends_Early ==
  /\ Table_Broken => (pc = "returned" /\ ret = "-1" /\ Nothing_Decoded)
  /\ (pc = "returned" /\ ~Disassemble_Entered) => (Table_Broken /\ ret = "-1")

(***************************************************************************)
(* C20 amended: when the check of the opcode table fails, disasm returns   *)
(* an error before decoding starts (no step of either loop, no handler     *)
(* call, no output); this check and a tag file that Read_Tagfile cannot    *)
(* read, on which disasm returns 0 before it registers any opcode, are the *)
(* only conditions under which disasm ends without running Disassemble.    *)
(***************************************************************************)
C20_Table_Check_Or_Tagfile_Ends_Early ==
  /\ Table_Broken => (pc = "returned" /\ ret = "-1" /\ Nothing_Decoded)
  /\ (pc = "returned" /\ ~Disassemble_Entered)
       => \/ (Table_Broken /\ ret = "-1")
          \/ (ret = "0" /\ dis_op = <<>> /\ stderr = {} /\ Nothing_Decoded)

\* disasm has returned -1 after it has built and sorted the registry
C20_Witness ==
  /\ pc = "returned"
  /\ ret = "-1"
  /\ Table_Broken
  /\ dis_n_ops = Len(OpcodeTable)
  /\ Nothing_Decoded

\* The second loop of Disassemble is at work: it is about to call
\* Tagfile_Process_Data, or one of its iterations has just been run
In_Second_Loop == pc = "pass2_body" \/ iter.loop = "pass2"

(***************************************************************************)
(* C21: under every combination of options, whenever the second loop of    *)
(* Disassemble calls Tagfile_Process_Data, calls a render-handler or       *)
(* prints, cx->dis_opts.Pass is 2; a handler called by the second loop is  *)
(* called with Pass = 2.                                                   *)
(***************************************************************************)
C21_Second_Loop_In_Pass_2 ==
  /\ In_Second_Loop => dis_opts.Pass = 2
  /\ iter.loop = "pass2"
       => \A k \in 1..Len(iter.calls) : iter.calls[k].Pass = 2

\* The first loop was not run, and the second loop has called a handler and
\* printed the instruction's line while cx->dis_opts.Pass was 1
C21_Witness ==
  /\ ~First_Loop_Due
  /\ Matched_In_Pass2
  /\ iter.calls[1].Pass = 1
  /\ dis_opts.Pass = 1
  /\ stdout # <<>>
  /\ n_enumerate = 0

\* cx->dis_regs as one match of a pattern against the stream s leaves it:
\* the field values of the pattern's own characters, 0 for every other one
Scratch_Of(Bitmask, s) ==
  [c \in Chars |-> IF c \in {"0", "1", " "} THEN 0 ELSE Field_Value(Bitmask, s, c)]

\* The four bytes at the position the iteration has started at, g being read
\* where the buffer has ended
Stream_From(g) == SubSeq(Memory(Bitstream, g), iter.from + 1, iter.from + 4)

(***************************************************************************)
(* C22: whenever a render-handler is called, in either loop, it is the     *)
(* handler of the entry the resolver has returned, called for the cursor   *)
(* position, and cx->dis_regs holds exactly the field values that matching *)
(* that entry's own pattern against the bytes at the cursor gives: nothing *)
(* has reset or rewritten the scratch since the match, and no bit that an  *)
(* earlier, failed attempt on another entry has shifted in is left.        *)
(***************************************************************************)
C22_Handler_Sees_Own_Fields ==
  Matched_Iteration
    => /\ Opcode \in 0..(dis_n_ops - 1)
       /\ Len(iter.calls) = 1
       /\ iter.tried = Opcode + 1
       /\ \E c \in {iter.calls[1]}, Bitmask \in {At(dis_op, Opcode).Opcode_String} :
            /\ c.Callback = At(dis_op, Opcode).Callback
            /\ c.mnemo = At(dis_op, Opcode).mnemo
            /\ c.Pos = iter.from
            /\ c.dis_regs = dis_regs
            /\ \E g \in PadVals :
                 /\ Literals_Agree(Bitmask, Stream_From(g))
                 /\ c.dis_regs = Scratch_Of(Bitmask, Stream_From(g))

\* The handler of call was called for the bytes 0x0e 0x94 0x0e 0x94 with the
\* field k = 0x940e, after attempts on other entries had failed
C22_Witness ==
  /\ Matched_Iteration
  /\ iter.calls[1].mnemo = "OPCODE_call"
  /\ iter.calls[1].dis_regs["k"] = 37902
  /\ \A c \in Chars \ {"k"} : iter.calls[1].dis_regs[c] = 0
  /\ iter.tried > 1
  /\ Stream_From(0) = <<14, 148, 14, 148>>

\* The first loop has been run to its end: its test has failed at the end of
\* the buffer, Enumerate_Labels was called and the pass number was set to 2
First_Loop_Completed == n_enumerate = 1 /\ dis_opts.Pass = 2

(***************************************************************************)
(* C23: under every combination of options, whenever                       *)
(* Emit_Used_IO_Registers is called, the first loop has been run to its    *)
(* end over the whole buffer before, so that the handlers it calls have    *)
(* filled the register-usage table that is printed.                        *)
(***************************************************************************)
C23_Emit_After_First_Loop ==
  /\ [](n_emit_io > 0 => (First_Loop_Due /\ First_Loop_Completed))
  /\ [][n_emit_io' # n_emit_io
          => (First_Loop_Completed /\ pc = "emit_io" /\ Pos = 0)]_vars

\* Emit_Used_IO_Registers was called although the first loop was never run:
\* pseudo code is shown in the style CODESTYLE_AVRGCC without labels
C23_Witness ==
  /\ n_emit_io = 1
  /\ dis_opts.CodeStyle = "CODESTYLE_AVRGCC"
  /\ dis_opts.Show_PseudoCode
  /\ ~dis_opts.Process_Labels
  /\ n_enumerate = 0
  /\ pass1_calls = {}
  /\ dis_opts.Pass = 1

(***************************************************************************)
(* C24: when the first loop is run, every position at which the second     *)
(* loop calls a render-handler is a position at which the first loop has   *)
(* called the handler of the same entry, whatever the buffer holds and     *)
(* whatever Tagfile_Process_Data reports: the second loop renders no       *)
(* instruction at a position the first loop has not decoded.               *)
(***************************************************************************)
C24_Second_Loop_Follows_First ==
  (First_Loop_Due /\ Matched_In_Pass2)
    => \A k \in 1..Len(iter.calls) :
         <<iter.calls[k].Pos, iter.calls[k].mnemo>> \in pass1_calls

\* After Tagfile_Process_Data has taken one byte as data, the second loop has
\* called a handler at the odd position 1, which the first loop has stepped
\* over; every byte read lies inside the buffer
C24_Witness ==
  /\ First_Loop_Due
  /\ Matched_In_Pass2
  /\ iter.from = 1
  /\ iter.calls[1].Pos = 1
  /\ iter.reads \subseteq 0..(Read - 1)
  /\ pass1_calls # {}
  /\ \A c \in pass1_calls : c[1] # 1
  /\ n_enumerate = 1
=============================================================================
